---- MODULE Spec2Model ----
(***************************************************************************)
(* Model of the health-education-extractor backend: the duplicate detector *)
(* (app/services/duplicate_detector.py), the article review endpoints      *)
(* (app/api/v1/health_articles.py) and the background pipeline             *)
(* process_pdf_background (app/api/v1/pdf_processing.py).                   *)
(*                                                                         *)
(* Environment assumptions, stated once:                                   *)
(*  - the document store (PDFDocument.get / save) does not fail; the       *)
(*    article collection may fail on read (the detector's corpus read) and *)
(*    on insert, the extractor, the chunker, the summarization oracle and  *)
(*    the image search may fail;                                           *)
(*  - scores are exact rationals <<numerator, denominator>>: every score   *)
(*    the title stage computes is 2*M/T, 0.85 or 1.0, and every comparison *)
(*    the code makes on them is decided the same way on the rationals;     *)
(*  - the TF-IDF vectorizer and cosine_similarity are library code: their  *)
(*    outcome (an exception, or one cosine in [0,1] per corpus article) is *)
(*    chosen by the environment.                                           *)
(***************************************************************************)
EXTENDS Integers, Sequences, FiniteSets, TLC

\* ------------------------------------------------------------------ bounds
\* Longest title enumerated exhaustively over Alphabet.
MaxTitleLen == 2
\* Largest number of articles the article collection holds.
MaxArticles == 2

\* ------------------------------------------------------------- rationals
Rat(n, d) == <<n, d>>
Geq(x, y) == x[1] * y[2] >= y[1] * x[2]
RatEq(x, y) == x[1] * y[2] = y[1] * x[2]
RatMax(x, y) == IF Geq(x, y) THEN x ELSE y
Zero == Rat(0, 1)
One == Rat(1, 1)

\* ------------------------------------------------ characters and strings
\* A title is a sequence of one-character strings.
Alphabet == {"a", "B", " ", "-"}
Lower(c) == IF c = "A" THEN "a" ELSE IF c = "B" THEN "b" ELSE c
IsAlnum(c) == c \in {"a", "b", "A", "B", "c", "d"}
IsSpace(c) == c = " "

\* str.lower()
LowerStr(s) == [i \in 1..Len(s) |-> Lower(s[i])]

\* str.strip(): drop leading and trailing whitespace
RECURSIVE LStrip(_)
LStrip(s) == IF s # <<>> /\ IsSpace(Head(s)) THEN LStrip(Tail(s)) ELSE s
RECURSIVE RStrip(_)
RStrip(s) ==
    IF s # <<>> /\ IsSpace(s[Len(s)]) THEN RStrip(SubSeq(s, 1, Len(s) - 1)) ELSE s
Strip(s) == RStrip(LStrip(s))

\* Python's `s in t` on strings
Contains(s, t) ==
    \E i \in 0..(Len(t) - Len(s)) : SubSeq(t, i + 1, i + Len(s)) = s

\* ''.join(c.lower() for c in t if c.isalnum() or c.isspace()).strip()
CleanTitle(t) ==
    LET keep(c) == IsAlnum(c) \/ IsSpace(c)
    IN Strip(LowerStr(SelectSeq(t, keep)))

\* ------------------------------------------- difflib.SequenceMatcher.ratio
\* Length of the common run of a from i and b from j.
RECURSIVE RunLen(_, _, _, _)
RunLen(a, b, i, j) ==
    IF i > Len(a) \/ j > Len(b) \/ a[i] # b[j] THEN 0
    ELSE 1 + RunLen(a, b, i + 1, j + 1)

\* find_longest_match: the longest block, the earliest in a, then in b.
LongestMatch(a, b) ==
    LET cands == {<<i, j, RunLen(a, b, i, j)>> : i \in 1..Len(a), j \in 1..Len(b)}
        better(x, y) ==
            \/ x[3] > y[3]
            \/ x[3] = y[3] /\ x[1] < y[1]
            \/ x[3] = y[3] /\ x[1] = y[1] /\ x[2] <= y[2]
    IN CHOOSE x \in cands : \A y \in cands : better(x, y)

\* get_matching_blocks: total size of the blocks, recursing left and right
\* of the longest one (no junk: autojunk needs 200 or more characters).
RECURSIVE Matches(_, _)
Matches(a, b) ==
    IF a = <<>> \/ b = <<>> THEN 0
    ELSE LET m == LongestMatch(a, b)
         IN IF m[3] = 0 THEN 0
            ELSE m[3]
                 + Matches(SubSeq(a, 1, m[1] - 1), SubSeq(b, 1, m[2] - 1))
                 + Matches(SubSeq(a, m[1] + m[3], Len(a)),
                           SubSeq(b, m[2] + m[3], Len(b)))

\* ratio(): 2.0 * matches / (len(a) + len(b)), and 1.0 for two empty strings
Ratio(a, b) ==
    IF Len(a) + Len(b) = 0 THEN One
    ELSE Rat(2 * Matches(a, b), Len(a) + Len(b))

\* --------------------------------------------------- duplicate detector
\* settings.similarity_threshold (app/config.py)
settings_similarity_threshold == Rat(85, 100)
\* self.title_similarity_threshold
title_similarity_threshold == Rat(8, 10)
\* the score given to a title contained in the other
containment_similarity == Rat(85, 100)
\* titles must be longer than this for the containment rule
containment_min_len == 10
\* None (no threshold given): a pair with denominator 0
NoThreshold == <<0, 0>>

\* DuplicateDetector.__init__: similarity_threshold or max(0.65, settings * 0.75)
\* (None and 0.0 are both falsy; no range check is made here)
DetectorInit(param) ==
    IF param[2] = 0 \/ param[1] = 0
    THEN RatMax(Rat(65, 100),
                Rat(settings_similarity_threshold[1] * 75,
                    settings_similarity_threshold[2] * 100))
    ELSE param

\* update_similarity_threshold: the new value when it lies in [0,1],
\* otherwise the threshold is left as it is
update_similarity_threshold(old, new_threshold) ==
    IF Geq(new_threshold, Zero) /\ Geq(One, new_threshold)
    THEN new_threshold
    ELSE old

\* Variant of get_existing_articles: the status filter is left out.
get_existing_articles_unfiltered(arts, readFails) ==
    IF readFails THEN <<>> ELSE [i \in 1..Len(arts) |-> i]

\* _get_existing_articles: the ids of the articles whose status is not
\* rejected, in collection order; [] when the query raises
get_existing_articles(arts, readFails) ==
    IF readFails THEN <<>>
    ELSE LET live(i) == arts[i].processing_status # "rejected"
         IN SelectSeq([i \in 1..Len(arts) |-> i], live)

\* Variant of title_similarity: the comparison of the cleaned titles is
\* left out.
title_similarity_uncleaned(new_raw, existing_raw) ==
    LET new_title == Strip(LowerStr(new_raw))
        existing_title == Strip(LowerStr(existing_raw))
        s0 == Ratio(new_title, existing_title)
    IN IF /\ Len(new_title) > containment_min_len
          /\ Len(existing_title) > containment_min_len
          /\ (Contains(new_title, existing_title)
                 \/ Contains(existing_title, new_title))
       THEN RatMax(s0, containment_similarity)
       ELSE s0

\* The similarity _check_title_similarity computes for one corpus article
title_similarity(new_raw, existing_raw) ==
    LET new_title == Strip(LowerStr(new_raw))
        existing_title == Strip(LowerStr(existing_raw))
        s0 == Ratio(new_title, existing_title)
        s1 == IF /\ Len(new_title) > containment_min_len
                 /\ Len(existing_title) > containment_min_len
                 /\ (Contains(new_title, existing_title)
                        \/ Contains(existing_title, new_title))
              THEN RatMax(s0, containment_similarity)
              ELSE s0
        clean_new == CleanTitle(new_title)
        clean_existing == CleanTitle(existing_title)
    IN IF clean_new = clean_existing THEN One
       ELSE IF clean_new # <<>> /\ clean_existing # <<>>
            THEN RatMax(s1, Ratio(clean_new, clean_existing))
            ELSE s1

\* sorted(pairs, key=lambda x: x[1], reverse=True): stable, descending score
RECURSIVE InsertDesc(_, _)
InsertDesc(x, s) ==
    IF s = <<>> THEN <<x>>
    ELSE IF Geq(Head(s)[2], x[2]) THEN <<Head(s)>> \o InsertDesc(x, Tail(s))
         ELSE <<x>> \o s
RECURSIVE SortDesc(_)
SortDesc(s) ==
    IF s = <<>> THEN <<>>
    ELSE InsertDesc(s[Len(s)], SortDesc(SubSeq(s, 1, Len(s) - 1)))

\* _check_title_similarity: the (id, similarity) of every article of
\* `existing` whose similarity reaches the title threshold, sorted
check_title_similarity(title, arts, existing) ==
    LET scored == [k \in 1..Len(existing) |->
                      <<existing[k], title_similarity(title, arts[existing[k]].title)>>]
        hit(p) == Geq(p[2], title_similarity_threshold)
    IN SortDesc(SelectSeq(scored, hit))

\* _find_similar_articles: one cosine per article, sorted; [] when the
\* vectorizer or the cosine computation raises
find_similar_articles(existing, cos, vecFails) ==
    IF existing = <<>> \/ vecFails THEN <<>>
    ELSE SortDesc([k \in 1..Len(existing) |-> <<existing[k], cos[existing[k]]>>])

\* Variant of check_for_duplicates: no early return after the title stage;
\* title and content results are merged by id (maximum score), filtered by
\* the content threshold and sorted.
check_for_duplicates_merged(title, arts, threshold, env) ==
    LET existing == get_existing_articles(arts, env.readFails)
        title_duplicates == check_title_similarity(title, arts, existing)
        content_duplicates == find_similar_articles(existing, env.cos, env.vecFails)
        both == title_duplicates \o content_duplicates
        best(k) == \A m \in 1..Len(both) :
                      both[m][1] = both[k][1] =>
                          \/ ~Geq(both[m][2], both[k][2])
                          \/ (RatEq(both[m][2], both[k][2]) /\ k <= m)
                          \/ m = k
        merged == SelectSeq([k \in 1..Len(both) |-> <<both[k][1], both[k][2], best(k)>>],
                            LAMBDA p : p[3])
        keep(p) == Geq(p[2], threshold)
        final_duplicates ==
            SortDesc(SelectSeq([k \in 1..Len(merged) |-> <<merged[k][1], merged[k][2]>>], keep))
    IN IF existing = <<>>
       THEN [result |-> <<>>, stage |-> "none", vectorized |-> FALSE, raised |-> FALSE]
       ELSE [result |-> final_duplicates, stage |-> "content", vectorized |-> TRUE,
             raised |-> FALSE]

\* Variant of check_for_duplicates: a failure of the corpus read or of the
\* vectorizer leaves the call as an exception.
check_for_duplicates_uncaught(title, arts, threshold, env) ==
    LET existing == get_existing_articles(arts, FALSE)
        title_duplicates == check_title_similarity(title, arts, existing)
        content_duplicates == find_similar_articles(existing, env.cos, FALSE)
        keep(p) == Geq(p[2], threshold)
        final_duplicates == SortDesc(SelectSeq(content_duplicates, keep))
    IN IF env.readFails
       THEN [result |-> <<>>, stage |-> "none", vectorized |-> FALSE, raised |-> TRUE]
       ELSE IF existing = <<>>
       THEN [result |-> <<>>, stage |-> "none", vectorized |-> FALSE, raised |-> FALSE]
       ELSE IF title_duplicates # <<>>
            THEN [result |-> title_duplicates, stage |-> "title", vectorized |-> FALSE,
                  raised |-> FALSE]
            ELSE IF env.vecFails
                 THEN [result |-> <<>>, stage |-> "content", vectorized |-> TRUE,
                       raised |-> TRUE]
                 ELSE [result |-> final_duplicates, stage |-> "content",
                       vectorized |-> TRUE, raised |-> FALSE]

\* check_for_duplicates.  env = [readFails, vecFails, cos] is what the
\* article collection and the vectorizer do during this call.  The result
\* records the returned list, the stage that produced it, whether
\* fit_transform was called and whether an exception left the call (never:
\* both failures are caught below it and the body is inside try/except).
check_for_duplicates(title, arts, threshold, env) ==
    LET existing == get_existing_articles(arts, env.readFails)
        title_duplicates == check_title_similarity(title, arts, existing)
        content_duplicates == find_similar_articles(existing, env.cos, env.vecFails)
        keep(p) == Geq(p[2], threshold)
        final_duplicates == SortDesc(SelectSeq(content_duplicates, keep))
    IN IF existing = <<>>
       THEN [result |-> <<>>, stage |-> "none", vectorized |-> FALSE, raised |-> FALSE]
       ELSE IF title_duplicates # <<>>
            THEN [result |-> title_duplicates, stage |-> "title", vectorized |-> FALSE,
                  raised |-> FALSE]
            ELSE [result |-> final_duplicates, stage |-> "content", vectorized |-> TRUE,
                  raised |-> FALSE]

\* ------------------------------------------------------------ state
VARIABLES
    articles,               \* the health_articles collection, in insertion order
    similarity_threshold,   \* DuplicateDetector.similarity_threshold of the service instance
    last,                   \* the check_for_duplicates call that has just returned
    pdf,                    \* the pdf_documents collection: one persisted record per document
    run,                    \* process_pdf_background: position and locals of each document's task
    chunker,                \* one call of ContentChunker: its input, position and locals
    reading,                \* one call of GeminiSummarizer._estimate_reading_level
    cleanup                 \* one run of DuplicateCleanup.find_all_duplicates

detVars == <<similarity_threshold, last>>
pipeVars == <<pdf, run>>
chunkVars == <<chunker>>
toolVars == <<reading, cleanup>>
vars == <<articles, similarity_threshold, last, pdf, run, chunker, reading, cleanup>>

\* ----------------------------------------------------------- inputs
RECURSIVE StringsUpTo(_)
StringsUpTo(n) ==
    IF n = 0 THEN {<<>>}
    ELSE LET shorter == StringsUpTo(n - 1)
         IN shorter \cup {Append(s, c) : s \in {t \in shorter : Len(t) = n - 1}, c \in Alphabet}

LongTitle == [i \in 1..11 |-> "a"]
LongerTitle == [i \in 1..17 |-> IF i <= 11 THEN "a" ELSE "B"]

\* Titles a candidate may carry: every short string, and two longer titles.
CandidateTitles == StringsUpTo(MaxTitleLen) \cup {LongTitle, <<"a", " ", "b">>}
\* Titles of the articles created through the API (min_length = 1).
CorpusTitles == {<<"a", " ", "b">>, <<"a", "-", "B">>, LongerTitle}
\* Values passed to update_similarity_threshold.
ThresholdInputs == {Rat(9, 10), Rat(3, 2)}
\* Cosines the vectorizer may report for one article.
CosGrid == {Zero, Rat(7, 10), One}

NoCall == [called |-> FALSE]

\* What the collection and the vectorizer may do during one call.  Where
\* the vectorizer is not consulted, or raises, no cosine is drawn.
DetectorEnvs(title, arts, grid) ==
    LET n == Len(arts)
        none == [i \in 1..n |-> Zero]
        consulted ==
            LET existing == get_existing_articles(arts, FALSE)
            IN existing # <<>> /\ check_title_similarity(title, arts, existing) = <<>>
    IN  {[readFails |-> TRUE, vecFails |-> FALSE, cos |-> none],
         [readFails |-> FALSE, vecFails |-> TRUE, cos |-> none]}
        \cup {[readFails |-> FALSE, vecFails |-> FALSE, cos |-> c] :
                c \in IF consulted
                      THEN {f \in [1..n -> grid] :
                              \A i \in 1..n : arts[i].processing_status = "rejected" => f[i] = Zero}
                      ELSE {none}}

\* HealthArticle(**article_data.dict()): status draft
NewArticle(title, source, chunk, image) ==
    [title |-> title, processing_status |-> "draft",
     source_pdf_id |-> source, chunk_id |-> chunk, image_url |-> image]

\* --------------------------------------------------- pipeline data
\* Largest number of relevant chunks the chunker returns for a document.
MaxChunks == 2

Docs == {"d1", "d2"}
\* Optional values: None is the empty sequence, a value v is <<v>>.
None == <<>>
Some(v) == <<v>>

\* PDFProcessingStatus
PDFProcessingStatus ==
    {"uploaded", "parsing", "chunking", "processing", "completed", "failed"}
\* CategoryEnum: the member names and their values
CategoryEnum ==
    [HYPERTENSION |-> "Hypertension", DIABETES |-> "Diabetes",
     NUTRITION |-> "Nutrition", PHYSICAL_ACTIVITY |-> "Physical Activity",
     OBESITY |-> "Obesity", GENERAL_HEALTH |-> "General Health"]
CategoryValues == {CategoryEnum[m] : m \in DOMAIN CategoryEnum}

\* PDFDocument(...) as upload_pdf inserts it
NewPdfDocument ==
    [processing_status |-> "uploaded", total_pages |-> None, total_chunks |-> None,
     total_articles_generated |-> None, chunk_ids |-> <<>>, article_ids |-> <<>>,
     error_message |-> None, processing_started_at |-> FALSE,
     processing_completed_at |-> FALSE, processing_stats |-> None]
\* No such document in the collection.
AbsentDoc == [NewPdfDocument EXCEPT !.processing_status = "absent"]

\* The locals of one run of process_pdf_background, and what the run has
\* done so far (fatal .. reads are history, read by the properties only):
\* noimage are the candidates the image matcher returned None for, events
\* the calls and sleeps of batch_summarize_chunks in the order they were
\* made, reads the corpus reads <<candidate, articles present, failed>>,
\* unknown_category the chunks whose answer had every required field and a
\* category outside CategoryEnum.
NewTask ==
    [pc |-> "start", chunks |-> <<>>, i |-> 1, summarized_contents |-> <<>>,
     j |-> 1, image_url |-> FALSE, created_articles |-> <<>>,
     fatal |-> "none", chunked |-> FALSE, oracle_calls |-> 0,
     flagged |-> {}, unique |-> {}, degraded |-> {}, searched |-> {}, errors |-> {},
     noimage |-> {}, events |-> <<>>, reads |-> {}, unknown_category |-> {}]
NoTask == [NewTask EXCEPT !.pc = "none"]
\* No call of the chunker is being followed.
NoChunker == [pc |-> "none"]
\* No call of _estimate_reading_level, no run of the cleanup script, is
\* being followed.
NoReading == [pc |-> "none"]
NoCleanup == [pc |-> "none"]

\* ------------------------------------------------- detector service
InitDet ==
    /\ articles = <<>>
    /\ similarity_threshold = DetectorInit(NoThreshold)
    /\ last = NoCall
    /\ pdf = [d \in Docs |-> AbsentDoc]
    /\ run = [d \in Docs |-> NoTask]
    /\ chunker = NoChunker
    /\ reading = NoReading
    /\ cleanup = NoCleanup

\* POST /articles/ : create_article
create_article(title) ==
    /\ last = NoCall
    /\ Len(articles) < MaxArticles
    /\ Len(title) >= 1
    /\ articles' = Append(articles, NewArticle(title, "none", 0, TRUE))
    /\ UNCHANGED <<similarity_threshold, last, pipeVars, chunkVars, toolVars>>

\* POST /articles/{id}/reject : reject_article
reject_article(a) ==
    /\ last = NoCall
    /\ a \in 1..Len(articles)
    /\ articles' = [articles EXCEPT ![a].processing_status = "rejected"]
    /\ UNCHANGED <<similarity_threshold, last, pipeVars, chunkVars, toolVars>>

\* DuplicateDetector.update_similarity_threshold
UpdateThreshold(t) ==
    /\ last = NoCall
    /\ similarity_threshold' = update_similarity_threshold(similarity_threshold, t)
    /\ UNCHANGED <<articles, last, pipeVars, chunkVars, toolVars>>

\* One call of check_for_duplicates on the service instance.  The call is
\* one step: it awaits nothing but its own corpus read.  Its record is kept
\* until the caller takes the result (DetectorReturn); the other operations
\* are taken between calls.  corpus is the collection as the call found it.
DetectorCheck(title) ==
    /\ last = NoCall
    /\ \E env \in DetectorEnvs(title, articles, CosGrid) :
          last' = [called |-> TRUE, title |-> title,
                   readFails |-> env.readFails, vecFails |-> env.vecFails,
                   cos |-> env.cos, corpus |-> articles,
                   again |-> FALSE, first |-> <<>>, firstReadFails |-> FALSE,
                   out |-> check_for_duplicates(title, articles, similarity_threshold, env)]
    /\ UNCHANGED <<articles, similarity_threshold, pipeVars, chunkVars, toolVars>>

\* Variant of DetectorCheckAgain: the call marks the articles it returns as
\* rejected in the collection.
DetectorCheckAgain_marking ==
    /\ last # NoCall
    /\ ~last.again
    /\ \E env \in DetectorEnvs(last.title, articles, CosGrid) :
          /\ (~last.readFails /\ ~env.readFails)
                => (env.vecFails = last.vecFails /\ env.cos = last.cos)
          /\ LET out == check_for_duplicates(last.title, articles, similarity_threshold, env)
                 hit == {out.result[k][1] : k \in 1..Len(out.result)}
             IN /\ last' = [last EXCEPT !.readFails = env.readFails,
                                        !.vecFails = env.vecFails,
                                        !.cos = env.cos, !.again = TRUE,
                                        !.first = last.out.result,
                                        !.firstReadFails = last.readFails,
                                        !.out = out]
                /\ articles' = [a \in 1..Len(articles) |->
                                  IF a \in hit
                                  THEN [articles[a] EXCEPT !.processing_status = "rejected"]
                                  ELSE articles[a]]
    /\ UNCHANGED <<similarity_threshold, pipeVars, chunkVars, toolVars>>

\* A second call of check_for_duplicates with the same candidate, made
\* before anything else touches the collection or the detector.  The corpus
\* read may fail or succeed independently of the first call's.  The
\* vectorizer is refitted on every call (fit_transform) and is a function of
\* the texts: where the first call consulted it, the second gets the same
\* answer; where the first call never reached it, its answer is drawn now.
DetectorCheckAgain ==
    /\ last # NoCall
    /\ ~last.again
    /\ \E env \in DetectorEnvs(last.title, articles, CosGrid) :
          /\ (~last.readFails /\ ~env.readFails)
                => (env.vecFails = last.vecFails /\ env.cos = last.cos)
          /\ last' = [last EXCEPT !.readFails = env.readFails, !.vecFails = env.vecFails,
                                  !.cos = env.cos, !.again = TRUE,
                                  !.first = last.out.result,
                                  !.firstReadFails = last.readFails,
                                  !.out = check_for_duplicates(last.title, articles,
                                                               similarity_threshold, env)]
    /\ UNCHANGED <<articles, similarity_threshold, pipeVars, chunkVars, toolVars>>

\* The caller takes the returned list.
DetectorReturn ==
    /\ last # NoCall
    /\ last' = NoCall
    /\ UNCHANGED <<articles, similarity_threshold, pipeVars, chunkVars, toolVars>>

NextDet ==
    \/ \E t \in CorpusTitles : create_article(t)
    \/ \E a \in 1..MaxArticles : reject_article(a)
    \/ \E t \in ThresholdInputs : UpdateThreshold(t)
    \/ \E t \in CandidateTitles : DetectorCheck(t)
    \/ DetectorReturn

SpecDet == InitDet /\ [][NextDet]_vars

\* The detector service with callers that repeat a call: a title match, a
\* near match, a title the title stage lets through, and a long title.
RepeatTitles == {<<"a", " ", "b">>, <<"-", "B">>, <<"B">>, LongTitle}

NextRepeat ==
    \/ \E t \in CorpusTitles : create_article(t)
    \/ \E a \in 1..MaxArticles : reject_article(a)
    \/ \E t \in ThresholdInputs : UpdateThreshold(t)
    \/ \E t \in RepeatTitles : DetectorCheck(t)
    \/ DetectorCheckAgain
    \/ DetectorReturn

SpecRepeat == InitDet /\ [][NextRepeat]_vars

\* The detector service when detectors are also constructed anew.
\* Values passed to DuplicateDetector(similarity_threshold=..): none, one
\* inside [0,1] and one outside.
ConstructorInputs == {NoThreshold, Rat(1, 2), Rat(3, 2)}

\* DuplicateDetector(param): the instance in use is replaced by a new one
NewDetector(param) ==
    /\ last = NoCall
    /\ similarity_threshold' = DetectorInit(param)
    /\ UNCHANGED <<articles, last, pipeVars, chunkVars, toolVars>>

NextConfigure ==
    \/ \E t \in CorpusTitles : create_article(t)
    \/ \E p \in ConstructorInputs : NewDetector(p)
    \/ \E t \in ThresholdInputs : UpdateThreshold(t)
    \/ \E t \in RepeatTitles : DetectorCheck(t)
    \/ DetectorReturn

SpecConfigure == InitDet /\ [][NextConfigure]_vars

\* ----------------------------------------------------------- summarizer
\* What the chunker returns: up to MaxChunks relevant chunks.  cat_keyword:
\* the chunk text holds a keyword of GeminiSummarizer.category_keywords.
ChunkerOutputs ==
    UNION {[1..n -> [cat_keyword : BOOLEAN]] : n \in 0..MaxChunks}

\* Titles the oracle gives its articles.
PipelineTitles == {<<"a", "B">>, <<"a", "-", "B">>, <<"B">>, <<>>}
\* What one call of the oracle can produce: an exception, an empty text, a
\* text without JSON, JSON lacking a required field, JSON naming a category
\* outside CategoryEnum, and well-formed answers (body_ok: the content has
\* the 10 characters HealthArticleCreate requires).
OracleResponses ==
    {[kind |-> k, has_fields |-> FALSE, category |-> "", title |-> <<>>, body_ok |-> FALSE] :
        k \in {"error", "empty", "garbage", "json"}}
    \cup {[kind |-> "json", has_fields |-> TRUE, category |-> "Wellness",
           title |-> <<"B">>, body_ok |-> TRUE]}
    \cup {[kind |-> "json", has_fields |-> TRUE, category |-> "Hypertension",
           title |-> t, body_ok |-> TRUE] : t \in PipelineTitles}
    \cup {[kind |-> "json", has_fields |-> TRUE, category |-> "Nutrition",
           title |-> <<"B">>, body_ok |-> FALSE]}

\* _suggest_category: the best matching category, and CategoryEnum.GENERAL
\* when no keyword matches.  CategoryEnum has no member GENERAL: reading it
\* raises AttributeError.
suggest_category(chunk) ==
    IF chunk.cat_keyword THEN [raised |-> FALSE, value |-> CategoryEnum.HYPERTENSION]
    ELSE IF "GENERAL" \in DOMAIN CategoryEnum
         THEN [raised |-> FALSE, value |-> CategoryEnum["GENERAL"]]
         ELSE [raised |-> TRUE, value |-> ""]

\* _parse_gemini_response: None unless the text holds JSON with every
\* required field; an unknown category falls back to CategoryEnum.GENERAL,
\* whose AttributeError the last except clause turns into None.
parse_gemini_response(resp, chunk_id) ==
    IF resp.kind # "json" \/ ~resp.has_fields THEN None
    ELSE IF resp.category \notin CategoryValues /\ "GENERAL" \notin DOMAIN CategoryEnum
         THEN None
         ELSE Some([title |-> resp.title,
                    category |-> IF resp.category \in CategoryValues
                                 THEN resp.category ELSE CategoryEnum["GENERAL"],
                    body_ok |-> resp.body_ok,
                    source_chunk_id |-> chunk_id])

\* summarize_chunk once the oracle has answered: None for an exception or
\* an empty text (_generate_content_async), else the parsed answer.
summarize_chunk(resp, chunk_id) ==
    IF resp.kind \in {"error", "empty"} THEN None
    ELSE parse_gemini_response(resp, chunk_id)

\* HealthArticleCreate(...): title min_length=1, content min_length=10
ValidArticle(c) == Len(c.title) >= 1 /\ c.body_ok

\* ------------------------------------------- process_pdf_background
\* Variant of mark_failed: the message is not recorded.
mark_failed_silent(doc) ==
    [doc EXCEPT !.processing_status = "failed", !.processing_completed_at = TRUE]

\* except Exception as e: the document is read again, marked failed with
\* str(e) and saved.
mark_failed(doc) ==
    [doc EXCEPT !.processing_status = "failed",
                !.error_message = Some("error"),
                !.processing_completed_at = TRUE]

\* processing_status = PARSING, processing_started_at = now, save
StartProcessing(d) ==
    /\ run[d].pc = "start"
    /\ pdf' = [pdf EXCEPT ![d].processing_status = "parsing",
                          ![d].processing_started_at = TRUE]
    /\ run' = [run EXCEPT ![d].pc = "parse"]
    /\ UNCHANGED <<articles, detVars, chunkVars, toolVars>>

\* Step 1: parse_pdf; total_pages saved, or the exception handler
ParsePdf(d) ==
    /\ run[d].pc = "parse"
    /\ \E ok \in BOOLEAN, pages \in 0..1 :
          IF ok
          THEN /\ pdf' = [pdf EXCEPT ![d].total_pages = Some(pages)]
               /\ run' = [run EXCEPT ![d].pc = "set_chunking"]
          ELSE /\ pdf' = [pdf EXCEPT ![d] = mark_failed(pdf[d])]
               /\ run' = [run EXCEPT ![d].pc = "done", ![d].fatal = "parse"]
    /\ UNCHANGED <<articles, detVars, chunkVars, toolVars>>

\* processing_status = CHUNKING, save
SetChunking(d) ==
    /\ run[d].pc = "set_chunking"
    /\ pdf' = [pdf EXCEPT ![d].processing_status = "chunking"]
    /\ run' = [run EXCEPT ![d].pc = "chunk"]
    /\ UNCHANGED <<articles, detVars, chunkVars, toolVars>>

\* Step 2: chunk_content; total_chunks and chunk_ids saved, or the handler
ChunkContent(d) ==
    /\ run[d].pc = "chunk"
    /\ \/ \E chunks \in ChunkerOutputs :
            /\ pdf' = [pdf EXCEPT ![d].total_chunks = Some(Len(chunks)),
                                  ![d].chunk_ids = [k \in 1..Len(chunks) |-> k]]
            /\ run' = [run EXCEPT ![d].pc = "chunked", ![d].chunks = chunks,
                                  ![d].chunked = TRUE]
       \/ /\ pdf' = [pdf EXCEPT ![d] = mark_failed(pdf[d])]
          /\ run' = [run EXCEPT ![d].pc = "done", ![d].fatal = "chunk"]
    /\ UNCHANGED <<articles, detVars, chunkVars, toolVars>>

\* Variant of AfterChunking: no early return for an empty chunk list.
AfterChunking_no_return(d) ==
    /\ run[d].pc = "chunked"
    /\ pdf' = [pdf EXCEPT ![d].processing_status = "processing"]
    /\ run' = [run EXCEPT ![d].pc = IF run[d].chunks = <<>> THEN "summarized"
                                    ELSE "summarize"]
    /\ UNCHANGED <<articles, detVars, chunkVars, toolVars>>

\* if not chunks: COMPLETED, save, return; else PROCESSING, save
AfterChunking(d) ==
    /\ run[d].pc = "chunked"
    /\ IF run[d].chunks = <<>>
       THEN /\ pdf' = [pdf EXCEPT ![d].processing_status = "completed",
                                  ![d].processing_completed_at = TRUE]
            /\ run' = [run EXCEPT ![d].pc = "done"]
       ELSE /\ pdf' = [pdf EXCEPT ![d].processing_status = "processing"]
            /\ run' = [run EXCEPT ![d].pc = "summarize"]
    /\ UNCHANGED <<articles, detVars, chunkVars, toolVars>>

\* Variant of SummarizeChunk: the sleep is skipped after a chunk that gave
\* no candidate.
SummarizeChunk_no_delay_on_failure(d) ==
    LET r == run[d]
        done(out, calls, unknown) ==
            run' = [run EXCEPT
                      ![d].unknown_category = @ \cup unknown,
                      ![d].summarized_contents = r.summarized_contents \o out,
                      ![d].oracle_calls = r.oracle_calls + calls,
                      ![d].events = Append(r.events, <<"call", r.i>>),
                      ![d].i = IF r.i < Len(r.chunks) /\ out # None THEN r.i ELSE r.i + 1,
                      ![d].pc = IF r.i < Len(r.chunks)
                                THEN (IF out = None THEN "summarize" ELSE "sleep")
                                ELSE "summarized"]
    IN /\ r.pc = "summarize"
       /\ IF suggest_category(r.chunks[r.i]).raised
          THEN done(None, 0, {})
          ELSE \E resp \in OracleResponses :
                  done(summarize_chunk(resp, r.i), 1,
                       IF resp.kind = "json" /\ resp.has_fields
                          /\ resp.category \notin CategoryValues
                       THEN {r.i} ELSE {})
       /\ UNCHANGED <<articles, detVars, pdf, chunkVars, toolVars>>

\* Step 3, one turn of batch_summarize_chunks: summarize_chunk(chunks[i]),
\* which returns a candidate or None and never raises; then the sleep,
\* unless this was the last chunk.
SummarizeChunk(d) ==
    LET r == run[d]
        done(out, calls, unknown) ==
            run' = [run EXCEPT
                      ![d].unknown_category = @ \cup unknown,
                      ![d].summarized_contents = r.summarized_contents \o out,
                      ![d].oracle_calls = r.oracle_calls + calls,
                      ![d].events = Append(r.events, <<"call", r.i>>),
                      ![d].i = IF r.i < Len(r.chunks) THEN r.i ELSE r.i + 1,
                      ![d].pc = IF r.i < Len(r.chunks) THEN "sleep" ELSE "summarized"]
    IN /\ r.pc = "summarize"
       /\ IF suggest_category(r.chunks[r.i]).raised
          THEN done(None, 0, {})
          ELSE \E resp \in OracleResponses :
                  done(summarize_chunk(resp, r.i), 1,
                       IF resp.kind = "json" /\ resp.has_fields
                          /\ resp.category \notin CategoryValues
                       THEN {r.i} ELSE {})
       /\ UNCHANGED <<articles, detVars, pdf, chunkVars, toolVars>>

\* await asyncio.sleep(1) between two chunks
RateLimit(d) ==
    /\ run[d].pc = "sleep"
    /\ run' = [run EXCEPT ![d].events = Append(@, <<"sleep", run[d].i>>),
                          ![d].i = @ + 1,
                          ![d].pc = "summarize"]
    /\ UNCHANGED <<articles, detVars, pdf, chunkVars, toolVars>>

\* if not summarized_contents: COMPLETED, save, return
AfterSummarizing(d) ==
    /\ run[d].pc = "summarized"
    /\ IF run[d].summarized_contents = <<>>
       THEN /\ pdf' = [pdf EXCEPT ![d].processing_status = "completed",
                                  ![d].processing_completed_at = TRUE]
            /\ run' = [run EXCEPT ![d].pc = "done"]
       ELSE /\ run' = [run EXCEPT ![d].pc = "check"]
            /\ UNCHANGED pdf
    /\ UNCHANGED <<articles, detVars, chunkVars, toolVars>>

\* The loop of step 4 moves to the next candidate, or leaves.
NextCandidate(r) ==
    [r EXCEPT !.j = r.j + 1,
              !.pc = IF r.j = Len(r.summarized_contents) THEN "finish" ELSE "check"]

\* Variant of CheckDuplicates: the returned list is not looked at.
CheckDuplicates_ignored(d) ==
    LET r == run[d]
        c == r.summarized_contents[r.j]
    IN /\ r.pc = "check"
       /\ \E env \in DetectorEnvs(c.title, articles, {Zero, One}) :
            LET out == check_for_duplicates(c.title, articles,
                                            DetectorInit(NoThreshold), env)
            IN run' = [run EXCEPT ![d] =
                  IF out.result # <<>>
                  THEN [r EXCEPT !.flagged = r.flagged \cup {r.j}, !.pc = "image"]
                  ELSE [r EXCEPT !.unique = r.unique \cup {r.j}, !.pc = "image"]]
       /\ UNCHANGED <<articles, detVars, pdf, chunkVars, toolVars>>

\* Variant of CheckDuplicates: the detector works on a corpus read before
\* the latest insert.
CheckDuplicates_stale(d) ==
    LET r == run[d]
        c == r.summarized_contents[r.j]
        seen == SubSeq(articles, 1, Len(articles) - 1)
    IN /\ r.pc = "check"
       /\ \E env \in DetectorEnvs(c.title, seen, {Zero, One}) :
            LET out == check_for_duplicates(c.title, seen,
                                            DetectorInit(NoThreshold), env)
                noted == [r EXCEPT !.reads = r.reads \cup
                                               {<<r.j, Len(articles), env.readFails>>}]
            IN run' = [run EXCEPT ![d] =
                  IF out.result # <<>>
                  THEN NextCandidate([noted EXCEPT !.flagged = r.flagged \cup {r.j}])
                  ELSE [noted EXCEPT !.unique = r.unique \cup {r.j}, !.pc = "image"]]
       /\ UNCHANGED <<articles, detVars, pdf, chunkVars, toolVars>>

\* Variant of CheckDuplicates: the detector leaves out the articles of the
\* document being processed.
CheckDuplicates_others_only(d) ==
    LET r == run[d]
        c == r.summarized_contents[r.j]
        others == [a \in 1..Len(articles) |->
                     IF articles[a].source_pdf_id = d
                     THEN [articles[a] EXCEPT !.processing_status = "rejected"]
                     ELSE articles[a]]
    IN /\ r.pc = "check"
       /\ \E env \in DetectorEnvs(c.title, others, {Zero, One}) :
            LET out == check_for_duplicates(c.title, others,
                                            DetectorInit(NoThreshold), env)
                noted == [r EXCEPT !.reads = r.reads \cup
                                               {<<r.j, Len(articles), env.readFails>>}]
            IN run' = [run EXCEPT ![d] =
                  IF out.result # <<>>
                  THEN NextCandidate([noted EXCEPT !.flagged = r.flagged \cup {r.j}])
                  ELSE [noted EXCEPT !.unique = r.unique \cup {r.j}, !.pc = "image"]]
       /\ UNCHANGED <<articles, detVars, pdf, chunkVars, toolVars>>

\* Step 4: duplicates = check_for_duplicates(candidate); continue on a match
CheckDuplicates(d) ==
    LET r == run[d]
        c == r.summarized_contents[r.j]
    IN /\ r.pc = "check"
       /\ \E env \in DetectorEnvs(c.title, articles, {Zero, One}) :
            LET out == check_for_duplicates(c.title, articles,
                                            DetectorInit(NoThreshold), env)
                why == IF env.readFails THEN {<<r.j, "read">>}
                       ELSE IF get_existing_articles(articles, FALSE) = <<>>
                            THEN {<<r.j, "empty">>}
                            ELSE IF out.vectorized /\ env.vecFails
                                 THEN {<<r.j, "vector">>}
                                 ELSE {}
                noted == [r EXCEPT !.degraded = r.degraded \cup why,
                                   !.reads = r.reads \cup
                                               {<<r.j, Len(articles), env.readFails>>}]
            IN run' = [run EXCEPT ![d] =
                  IF out.raised
                  THEN NextCandidate([noted EXCEPT !.errors = r.errors \cup {r.j}])
                  ELSE IF out.result # <<>>
                       THEN NextCandidate([noted EXCEPT !.flagged = r.flagged \cup {r.j}])
                       ELSE [noted EXCEPT !.unique = r.unique \cup {r.j}, !.pc = "image"]]
       /\ UNCHANGED <<articles, detVars, pdf, chunkVars, toolVars>>

\* find_image_for_article: an image, or None (no result, or any error)
FindImage(d) ==
    /\ run[d].pc = "image"
    /\ \E found \in BOOLEAN :
          run' = [run EXCEPT ![d].image_url = found,
                             ![d].searched = run[d].searched \cup {run[d].j},
                             ![d].noimage = IF found THEN run[d].noimage
                                            ELSE run[d].noimage \cup {run[d].j},
                             ![d].pc = "create"]
    /\ UNCHANGED <<articles, detVars, pdf, chunkVars, toolVars>>

\* Variant of CreateArticle: a failed item marks the document failed before
\* the loop goes on.
CreateArticle_fatal_item(d) ==
    LET r == run[d]
        c == r.summarized_contents[r.j]
    IN /\ r.pc = "create"
       /\ \E insertFails \in BOOLEAN :
            IF ~ValidArticle(c) \/ insertFails
            THEN /\ run' = [run EXCEPT ![d] =
                              NextCandidate([r EXCEPT !.errors = r.errors \cup {r.j}])]
                 /\ pdf' = [pdf EXCEPT ![d] = mark_failed(pdf[d])]
                 /\ UNCHANGED articles
            ELSE /\ articles' = Append(articles,
                                       NewArticle(c.title, d, c.source_chunk_id, r.image_url))
                 /\ run' = [run EXCEPT ![d] =
                              NextCandidate([r EXCEPT !.created_articles =
                                               Append(r.created_articles, Len(articles) + 1)])]
                 /\ UNCHANGED pdf
       /\ UNCHANGED <<detVars, chunkVars, toolVars>>

\* Variant of CreateArticle: a candidate without an image is skipped.
CreateArticle_requires_image(d) ==
    LET r == run[d]
        c == r.summarized_contents[r.j]
    IN /\ r.pc = "create"
       /\ \E insertFails \in BOOLEAN :
            IF ~r.image_url
            THEN /\ run' = [run EXCEPT ![d] = NextCandidate(r)]
                 /\ UNCHANGED articles
            ELSE IF ~ValidArticle(c) \/ insertFails
            THEN /\ run' = [run EXCEPT ![d] =
                              NextCandidate([r EXCEPT !.errors = r.errors \cup {r.j}])]
                 /\ UNCHANGED articles
            ELSE /\ articles' = Append(articles,
                                       NewArticle(c.title, d, c.source_chunk_id, r.image_url))
                 /\ run' = [run EXCEPT ![d] =
                              NextCandidate([r EXCEPT !.created_articles =
                                               Append(r.created_articles, Len(articles) + 1)])]
       /\ UNCHANGED <<detVars, pdf, chunkVars, toolVars>>

\* Variant of CreateArticle: an article with the candidate's title is
\* replaced where there is one.
CreateArticle_upsert(d) ==
    LET r == run[d]
        c == r.summarized_contents[r.j]
        same == {a \in 1..Len(articles) : articles[a].title = c.title}
        at == IF same = {} THEN Len(articles) + 1 ELSE CHOOSE a \in same : TRUE
        new == NewArticle(c.title, d, c.source_chunk_id, r.image_url)
    IN /\ r.pc = "create"
       /\ \E insertFails \in BOOLEAN :
            IF ~ValidArticle(c) \/ insertFails
            THEN /\ run' = [run EXCEPT ![d] =
                              NextCandidate([r EXCEPT !.errors = r.errors \cup {r.j}])]
                 /\ UNCHANGED articles
            ELSE /\ articles' = IF same = {} THEN Append(articles, new)
                                ELSE [articles EXCEPT ![at] = new]
                 /\ run' = [run EXCEPT ![d] =
                              NextCandidate([r EXCEPT !.created_articles =
                                               Append(r.created_articles, at)])]
       /\ UNCHANGED <<detVars, pdf, chunkVars, toolVars>>

\* HealthArticleCreate(...), HealthArticle(...), insert; a validation error
\* or a failed insert is caught by the loop's except clause
CreateArticle(d) ==
    LET r == run[d]
        c == r.summarized_contents[r.j]
    IN /\ r.pc = "create"
       /\ \E insertFails \in BOOLEAN :
            IF ~ValidArticle(c) \/ insertFails
            THEN /\ run' = [run EXCEPT ![d] =
                              NextCandidate([r EXCEPT !.errors = r.errors \cup {r.j}])]
                 /\ UNCHANGED articles
            ELSE /\ articles' = Append(articles,
                                       NewArticle(c.title, d, c.source_chunk_id, r.image_url))
                 /\ run' = [run EXCEPT ![d] =
                              NextCandidate([r EXCEPT !.created_articles =
                                               Append(r.created_articles, Len(articles) + 1)])]
       /\ UNCHANGED <<detVars, pdf, chunkVars, toolVars>>

\* article_ids, total_articles_generated, COMPLETED, processing_stats, save
FinishProcessing(d) ==
    LET r == run[d]
    IN /\ r.pc = "finish"
       /\ pdf' = [pdf EXCEPT
                    ![d].article_ids = r.created_articles,
                    ![d].total_articles_generated = Some(Len(r.created_articles)),
                    ![d].processing_status = "completed",
                    ![d].processing_completed_at = TRUE,
                    ![d].processing_stats =
                        Some([total_chunks |-> Len(r.chunks),
                              articles_generated |-> Len(r.created_articles),
                              articles_skipped_duplicates |->
                                  Len(r.summarized_contents) - Len(r.created_articles),
                              processing_time_seconds |-> 0])]
       /\ run' = [run EXCEPT ![d].pc = "done"]
       /\ UNCHANGED <<articles, detVars, chunkVars, toolVars>>

\* The corpus a run may find: empty, one article, or one rejected article.
InitialCorpora ==
    {<<>>,
     <<NewArticle(<<"a", "B">>, "none", 0, TRUE)>>,
     <<[NewArticle(<<"a", "B">>, "none", 0, TRUE) EXCEPT !.processing_status = "rejected"]>>}

\* One document has been uploaded and its background task is queued.
Init ==
    /\ articles \in InitialCorpora
    /\ similarity_threshold = DetectorInit(NoThreshold)
    /\ last = NoCall
    /\ pdf = [d \in Docs |-> IF d = "d1" THEN NewPdfDocument ELSE AbsentDoc]
    /\ run = [d \in Docs |-> IF d = "d1" THEN NewTask ELSE NoTask]
    /\ chunker = NoChunker
    /\ reading = NoReading
    /\ cleanup = NoCleanup

Next ==
    \E d \in Docs :
        \/ StartProcessing(d)
        \/ ParsePdf(d)
        \/ SetChunking(d)
        \/ ChunkContent(d)
        \/ AfterChunking(d)
        \/ SummarizeChunk(d)
        \/ RateLimit(d)
        \/ AfterSummarizing(d)
        \/ CheckDuplicates(d)
        \/ FindImage(d)
        \/ CreateArticle(d)
        \/ FinishProcessing(d)

Spec == Init /\ [][Next]_vars

\* _generate_content_async: model.generate_content runs in the default
\* executor and is awaited with no timeout; when the remote call does not
\* return, the await does not either and the run stays where it is.
OracleHangs(d) ==
    LET r == run[d]
    IN /\ r.pc = "summarize"
       /\ ~suggest_category(r.chunks[r.i]).raised
       /\ run' = [run EXCEPT ![d].oracle_calls = r.oracle_calls + 1,
                             ![d].events = Append(r.events, <<"call", r.i>>),
                             ![d].pc = "awaiting_oracle"]
       /\ UNCHANGED <<articles, detVars, pdf, chunkVars, toolVars>>

NextLive ==
    \/ Next
    \/ \E d \in Docs : OracleHangs(d)

\* The event loop runs a task whenever it can take a step.
SpecLive == Init /\ [][NextLive]_vars /\ WF_vars(NextLive)

\* ------------------------------------------------------ cancellation
\* The task is cancelled at the await it is suspended in (the server shuts
\* down, the event loop cancels its tasks).  asyncio.CancelledError is not
\* an Exception: neither the per-item except clause nor the handler of
\* process_pdf_background catches it, and the coroutine ends there.
Cancel(d) ==
    /\ run[d].pc \notin {"none", "done", "cancelled"}
    /\ run' = [run EXCEPT ![d].pc = "cancelled"]
    /\ UNCHANGED <<articles, detVars, pdf, chunkVars, toolVars>>

\* A document processed earlier, with its one article.
CompletedDoc ==
    [NewPdfDocument EXCEPT
        !.processing_status = "completed",
        !.processing_started_at = TRUE,
        !.processing_completed_at = TRUE,
        !.total_pages = Some(1),
        !.total_chunks = Some(1),
        !.chunk_ids = <<1>>,
        !.article_ids = <<1>>,
        !.total_articles_generated = Some(1),
        !.processing_stats =
            Some([total_chunks |-> 1, articles_generated |-> 1,
                  articles_skipped_duplicates |-> 0, processing_time_seconds |-> 0])]

\* The second document was processed earlier and its article is in the
\* corpus, reviewed or not; the first has just been uploaded.
InitCancel ==
    /\ \E st \in {"draft", "rejected"} :
          articles = <<[NewArticle(<<"a", "B">>, "d2", 1, TRUE)
                          EXCEPT !.processing_status = st]>>
    /\ similarity_threshold = DetectorInit(NoThreshold)
    /\ last = NoCall
    /\ pdf = [d \in Docs |-> IF d = "d1" THEN NewPdfDocument ELSE CompletedDoc]
    /\ run = [d \in Docs |-> IF d = "d1" THEN NewTask ELSE NoTask]
    /\ chunker = NoChunker
    /\ reading = NoReading
    /\ cleanup = NoCleanup

NextCancel ==
    \/ Next
    \/ \E d \in Docs : Cancel(d)

SpecCancel == InitCancel /\ [][NextCancel]_vars

\* ------------------------------------------- two documents at once
\* Each upload schedules its own process_pdf_background; the tasks take
\* turns at their awaits.  Both documents have been summarized and are about
\* to enter the loop of step 4.
\* The candidates of a document, by title: the first document may have two.
RaceCandidates(d) ==
    IF d = "d1" THEN {<<<<"a", "B">>>>, <<<<"B">>, <<"a", "-", "B">>>>}
    ELSE {<<<<"a", "B">>>>, <<<<"a", "-", "B">>>>}
\* the record summarize_chunk returns for chunk k
Candidate(title, k) ==
    [title |-> title, category |-> CategoryEnum.HYPERTENSION, body_ok |-> TRUE,
     source_chunk_id |-> k]
\* the document and the task after step 3, every chunk summarized
SummarizedDoc(titles) ==
    [NewPdfDocument EXCEPT !.processing_status = "processing",
                           !.processing_started_at = TRUE,
                           !.total_pages = Some(1),
                           !.total_chunks = Some(Len(titles)),
                           !.chunk_ids = [k \in 1..Len(titles) |-> k]]
SummarizedTask(titles) ==
    LET n == Len(titles)
    IN [NewTask EXCEPT
          !.pc = "check",
          !.chunks = [k \in 1..n |-> [cat_keyword |-> TRUE]],
          !.chunked = TRUE,
          !.i = n + 1,
          !.oracle_calls = n,
          !.events = [k \in 1..(2 * n - 1) |->
                        IF k % 2 = 1 THEN <<"call", (k + 1) \div 2>>
                        ELSE <<"sleep", k \div 2>>],
          !.summarized_contents = [k \in 1..n |-> Candidate(titles[k], k)]]

InitRace ==
    /\ articles \in InitialCorpora
    /\ similarity_threshold = DetectorInit(NoThreshold)
    /\ last = NoCall
    /\ \E cs \in {f \in [Docs -> UNION {RaceCandidates(d) : d \in Docs}] :
                      \A d \in Docs : f[d] \in RaceCandidates(d)} :
          /\ pdf = [d \in Docs |-> SummarizedDoc(cs[d])]
          /\ run = [d \in Docs |-> SummarizedTask(cs[d])]
    /\ chunker = NoChunker
    /\ reading = NoReading
    /\ cleanup = NoCleanup

NextRace ==
    \E d \in Docs :
        \/ CheckDuplicates(d)
        \/ FindImage(d)
        \/ CreateArticle(d)
        \/ FinishProcessing(d)

SpecRace == InitRace /\ [][NextRace]_vars

\* ------------------------------------------------------------ chunker
\* ContentChunker(): target_chunk_size = settings.chunk_size_words
target_chunk_size == 200
\* the floor of min_chunk_size
min_chunk_floor == 50
Max2(a, b) == IF a >= b THEN a ELSE b
min_chunk_size == Max2(min_chunk_floor, target_chunk_size \div 4)
max_chunk_size == target_chunk_size * 2

\* Scores are exact fractions kept in lowest terms.
RECURSIVE GCD(_, _)
GCD(a, b) == IF b = 0 THEN a ELSE GCD(b, a % b)
RatNorm(x) == LET g == GCD(x[1], x[2]) IN IF g = 0 THEN x ELSE Rat(x[1] \div g, x[2] \div g)
RatAdd(x, y) == RatNorm(Rat(x[1] * y[2] + y[1] * x[2], x[2] * y[2]))
RatMul(x, y) == RatNorm(Rat(x[1] * y[1], x[2] * y[2]))
RatMin(x, y) == IF Geq(x, y) THEN y ELSE x

\* self.health_keywords
health_keywords ==
    [conditions |->
         {"diabetes", "hypertension", "blood pressure", "heart disease",
          "kidney disease", "chronic", "condition", "disease", "disorder",
          "syndrome", "illness", "medical", "health", "clinical", "obesity",
          "overweight", "obese", "weight gain", "excess weight",
          "body mass index", "bmi", "morbid obesity", "weight problem"},
     treatments |->
         {"medication", "medicine", "treatment", "therapy", "prescription",
          "drug", "dose", "dosage", "pills", "tablets", "injection",
          "weight loss surgery", "bariatric surgery", "gastric bypass",
          "weight management", "weight loss program"},
     symptoms |->
         {"symptoms", "signs", "pain", "ache", "fever", "fatigue", "nausea",
          "dizziness", "shortness of breath", "chest pain", "joint pain",
          "back pain", "sleep apnea", "snoring"},
     lifestyle |->
         {"diet", "nutrition", "exercise", "physical activity", "weight",
          "lifestyle", "eating", "food", "salt", "sodium", "calories",
          "weight loss", "healthy weight", "portion control", "portion size",
          "calorie counting", "meal planning", "healthy eating",
          "balanced diet", "weight management", "fitness", "cardio",
          "strength training"},
     care |->
         {"doctor", "physician", "nurse", "healthcare", "hospital", "clinic",
          "appointment", "checkup", "monitoring", "care", "nutritionist",
          "dietitian", "weight counselor", "fitness trainer",
          "weight loss specialist", "endocrinologist"}]
Categories == DOMAIN health_keywords
\* weights, in _calculate_relevance_score
weights ==
    [conditions |-> Rat(3, 10), treatments |-> Rat(1, 4), symptoms |-> Rat(1, 5),
     lifestyle |-> Rat(3, 20), care |-> Rat(1, 10)]
diversity_step == Rat(1, 10)
diversity_cap == Rat(3, 10)
relevance_threshold == Rat(3, 10)

\* The texts a sentence may hold, as far as the keywords can tell them
\* apart: "none" has no keyword in it; "diet" is a text such as "diet";
\* "rich" a text such as "chest pain medication from the doctor for
\* diabetes"; "all" a text in which every keyword occurs.
Phrases == {"none", "diet", "rich", "all"}
\* keyword in content_lower, for the text of one phrase
Occurs(keyword, phrase) ==
    CASE phrase = "none" -> FALSE
      [] phrase = "diet" -> keyword = "diet"
      [] phrase = "rich" -> keyword \in {"diabetes", "medication", "pain", "chest pain", "doctor"}
      [] phrase = "all" -> TRUE
\* A chunk's content is known by the phrases joined into it.
keyword_count(keywords, phrases) ==
    Cardinality({k \in keywords : \E p \in phrases : Occurs(k, p)})

RECURSIVE RatSum(_, _)
RatSum(f, S) ==
    IF S = {} THEN Zero
    ELSE LET c == CHOOSE x \in S : TRUE IN RatAdd(f[c], RatSum(f, S \ {c}))

\* Variant of calculate_relevance_score: the final score is not capped.
calculate_relevance_score_uncapped(chunk) ==
    IF chunk.word_count = 0 THEN Zero
    ELSE LET category_scores ==
                 [c \in Categories |->
                     Rat(keyword_count(health_keywords[c], chunk.phrases),
                         Cardinality(health_keywords[c]))]
             weighted_score ==
                 RatSum([c \in Categories |-> RatMul(category_scores[c], weights[c])],
                        Categories)
             categories_present ==
                 Cardinality({c \in Categories : category_scores[c][1] > 0})
             diversity_bonus ==
                 RatMin(RatMul(Rat(categories_present, 1), diversity_step), diversity_cap)
             length_factor == RatMin(Rat(chunk.word_count, min_chunk_size), One)
         IN RatMul(RatAdd(weighted_score, diversity_bonus), length_factor)

\* _calculate_relevance_score.  An empty content has word_count 0.
calculate_relevance_score(chunk) ==
    IF chunk.word_count = 0 THEN Zero
    ELSE LET category_scores ==
                 [c \in Categories |->
                     Rat(keyword_count(health_keywords[c], chunk.phrases),
                         Cardinality(health_keywords[c]))]
             weighted_score ==
                 RatSum([c \in Categories |-> RatMul(category_scores[c], weights[c])],
                        Categories)
             categories_present ==
                 Cardinality({c \in Categories : category_scores[c][1] > 0})
             diversity_bonus ==
                 RatMin(RatMul(Rat(categories_present, 1), diversity_step), diversity_cap)
             length_factor == RatMin(Rat(chunk.word_count, min_chunk_size), One)
             final_score == RatMul(RatAdd(weighted_score, diversity_bonus), length_factor)
         IN RatMin(final_score, One)

\* A page text after _clean_text is one line: its sentences, each with its
\* number of words and the phrase it holds.  A run of sentences joined
\* into one paragraph or chunk keeps the sum of the words and the phrases.
EmptyText == [words |-> 0, phrases |-> {}]
AsText(s) == [words |-> s.words, phrases |-> {s.phrase}]
JoinText(x, y) == [words |-> x.words + y.words, phrases |-> x.phrases \cup y.phrases]
RECURSIVE PageText(_)
PageText(ss) == IF ss = <<>> THEN EmptyText ELSE JoinText(AsText(Head(ss)), PageText(Tail(ss)))

\* the sentence loop of _split_into_paragraphs
RECURSIVE GroupSentences(_, _, _, _)
GroupSentences(ss, k, current_para, final_paragraphs) ==
    IF k > Len(ss)
    THEN IF current_para.words > 0 THEN Append(final_paragraphs, current_para)
         ELSE final_paragraphs
    ELSE LET sentence == AsText(ss[k])
         IN IF current_para.words + sentence.words > target_chunk_size
               /\ current_para.words > 0
            THEN GroupSentences(ss, k + 1, sentence, Append(final_paragraphs, current_para))
            ELSE GroupSentences(ss, k + 1, JoinText(current_para, sentence), final_paragraphs)

\* _split_into_paragraphs: the cleaned text holds no newline, so it is one
\* paragraph, split on sentence boundaries when longer than the target
split_into_paragraphs(ss) ==
    IF PageText(ss).words = 0 THEN <<>>
    ELSE IF PageText(ss).words > target_chunk_size
         THEN GroupSentences(ss, 1, EmptyText, <<>>)
         ELSE <<PageText(ss)>>

\* _create_chunk
create_chunk(text, chunk_index, page_number) ==
    [chunk_index |-> chunk_index, page_number |-> page_number,
     word_count |-> text.words, phrases |-> text.phrases,
     is_relevant |-> FALSE, relevance_score |-> None]

\* Variant of GroupParagraphs: the last chunk of a page is kept whatever
\* its size.
RECURSIVE GroupParagraphs_keep_remainder(_, _, _, _, _, _)
GroupParagraphs_keep_remainder(ps, k, current_chunk, chunks, start_chunk_index, page_number) ==
    IF k > Len(ps)
    THEN IF current_chunk.words > 0
         THEN Append(chunks, create_chunk(current_chunk, start_chunk_index + Len(chunks),
                                          page_number))
         ELSE chunks
    ELSE LET paragraph == ps[k]
         IN IF current_chunk.words + paragraph.words > max_chunk_size
               /\ current_chunk.words >= min_chunk_size
            THEN GroupParagraphs_keep_remainder(ps, k + 1, paragraph,
                     Append(chunks, create_chunk(current_chunk,
                                                 start_chunk_index + Len(chunks),
                                                 page_number)),
                     start_chunk_index, page_number)
            ELSE GroupParagraphs_keep_remainder(ps, k + 1,
                     JoinText(current_chunk, paragraph),
                     chunks, start_chunk_index, page_number)

\* the paragraph loop of _chunk_page_content and the final chunk
RECURSIVE GroupParagraphs(_, _, _, _, _, _)
GroupParagraphs(ps, k, current_chunk, chunks, start_chunk_index, page_number) ==
    IF k > Len(ps)
    THEN IF current_chunk.words > 0 /\ current_chunk.words >= min_chunk_size
         THEN Append(chunks, create_chunk(current_chunk, start_chunk_index + Len(chunks),
                                          page_number))
         ELSE chunks
    ELSE LET paragraph == ps[k]
         IN IF current_chunk.words + paragraph.words > max_chunk_size
               /\ current_chunk.words >= min_chunk_size
            THEN GroupParagraphs(ps, k + 1, paragraph,
                     Append(chunks, create_chunk(current_chunk,
                                                 start_chunk_index + Len(chunks),
                                                 page_number)),
                     start_chunk_index, page_number)
            ELSE GroupParagraphs(ps, k + 1, JoinText(current_chunk, paragraph),
                     chunks, start_chunk_index, page_number)

\* _chunk_page_content.  rejected: the text is empty, shorter than
\* min_chunk_size characters, or a line _clean_text drops.
chunk_page_content(ss, rejected, page_number, start_chunk_index) ==
    IF rejected THEN <<>>
    ELSE GroupParagraphs(split_into_paragraphs(ss), 1, EmptyText, <<>>,
                         start_chunk_index, page_number)

\* A text of n words has at least 2n - 1 characters: only a text of fewer
\* than min_chunk_size / 2 + 1 words can be rejected for its length.
MayBeRejected(ss) == 2 * PageText(ss).words - 1 < min_chunk_size

\* ---- inputs of the chunker
\* Largest number of sentences in a document.
MaxSentences == 2
WordCounts == {20, 50, 190, 410}
Sentences == [words : WordCounts, phrase : Phrases, newpage : BOOLEAN]
RECURSIVE SentenceSeqs(_)
SentenceSeqs(n) ==
    IF n = 0 THEN {<<>>}
    ELSE LET shorter == SentenceSeqs(n - 1)
         IN shorter \cup {Append(s, x) : s \in {t \in shorter : Len(t) = n - 1},
                                         x \in Sentences}
\* The pages of a document: a sentence with newpage opens a page, as the
\* first sentence does.
RECURSIVE PagesOf(_)
PagesOf(doc) ==
    IF doc = <<>> THEN <<>>
    ELSE LET front == SubSeq(doc, 1, Len(doc) - 1)
             s == doc[Len(doc)]
             before == PagesOf(front)
         IN IF s.newpage \/ before = <<>>
            THEN Append(before, <<s>>)
            ELSE [before EXCEPT ![Len(before)] = Append(@, s)]
Documents ==
    {PagesOf(doc) : doc \in {x \in SentenceSeqs(MaxSentences) : x = <<>> \/ x[1].newpage}}
\* Chunks handed to _calculate_relevance_score on their own.
ScoreInputs == [word_count : {0, 1, 25, 50, 400}, phrases : SUBSET Phrases]

\* chunk_content called with these pages
NewChunker(pages) ==
    [pc |-> "pages", pages |-> pages, page |-> 1, chunks |-> <<>>, k |-> 1,
     relevant_chunks |-> <<>>, returned |-> <<>>]
\* _calculate_relevance_score called with this chunk
NewScoring(chunk) ==
    [pc |-> "score_one", chunk |-> chunk, score |-> None]

InitChunk ==
    /\ articles = <<>>
    /\ similarity_threshold = DetectorInit(NoThreshold)
    /\ last = NoCall
    /\ pdf = [d \in Docs |-> AbsentDoc]
    /\ run = [d \in Docs |-> NoTask]
    /\ chunker \in {NewChunker(pages) : pages \in Documents}
                   \cup {NewScoring(c) : c \in ScoreInputs}
    /\ reading = NoReading
    /\ cleanup = NoCleanup

\* chunk_content: the next page is chunked and its chunks appended
ChunkPage ==
    /\ chunker.pc = "pages"
    /\ chunker.page <= Len(chunker.pages)
    /\ LET ss == chunker.pages[chunker.page]
       IN \E rejected \in (IF MayBeRejected(ss) THEN BOOLEAN ELSE {FALSE}) :
            chunker' = [chunker EXCEPT
                          !.chunks = @ \o chunk_page_content(ss, rejected, chunker.page,
                                                             Len(chunker.chunks)),
                          !.page = @ + 1]
    /\ UNCHANGED <<articles, detVars, pipeVars, toolVars>>

\* chunk_content: the pages are done, _filter_and_score_chunks starts
StartFilter ==
    /\ chunker.pc = "pages"
    /\ chunker.page > Len(chunker.pages)
    /\ chunker' = [chunker EXCEPT !.pc = "filter"]
    /\ UNCHANGED <<articles, detVars, pipeVars, toolVars>>

\* Variant of ScoreChunk: every chunk is returned, relevant or not.
ScoreChunk_unfiltered ==
    /\ chunker.pc = "filter"
    /\ chunker.k <= Len(chunker.chunks)
    /\ LET chunk == chunker.chunks[chunker.k]
           relevance_score == calculate_relevance_score(chunk)
           scored == [chunk EXCEPT !.relevance_score = Some(relevance_score)]
       IN chunker' = [chunker EXCEPT !.chunks[chunker.k] = scored,
                                     !.relevant_chunks = Append(@, scored),
                                     !.k = @ + 1]
    /\ UNCHANGED <<articles, detVars, pipeVars, toolVars>>

\* _filter_and_score_chunks: one turn of the loop
ScoreChunk ==
    /\ chunker.pc = "filter"
    /\ chunker.k <= Len(chunker.chunks)
    /\ LET chunk == chunker.chunks[chunker.k]
           relevance_score == calculate_relevance_score(chunk)
           scored == [chunk EXCEPT !.relevance_score = Some(relevance_score)]
           relevant == [scored EXCEPT !.is_relevant = TRUE]
       IN IF Geq(relevance_score, relevance_threshold)
          THEN chunker' = [chunker EXCEPT !.chunks[chunker.k] = relevant,
                                          !.relevant_chunks = Append(@, relevant),
                                          !.k = @ + 1]
          ELSE chunker' = [chunker EXCEPT !.chunks[chunker.k] = scored,
                                          !.k = @ + 1]
    /\ UNCHANGED <<articles, detVars, pipeVars, toolVars>>

\* chunk_content returns relevant_chunks
ChunkerReturn ==
    /\ chunker.pc = "filter"
    /\ chunker.k > Len(chunker.chunks)
    /\ chunker' = [chunker EXCEPT !.pc = "done", !.returned = chunker.relevant_chunks]
    /\ UNCHANGED <<articles, detVars, pipeVars, toolVars>>

\* _calculate_relevance_score on a chunk of its own
ScoreOne ==
    /\ chunker.pc = "score_one"
    /\ chunker' = [chunker EXCEPT !.pc = "scored",
                                  !.score = Some(calculate_relevance_score(chunker.chunk))]
    /\ UNCHANGED <<articles, detVars, pipeVars, toolVars>>

NextChunk ==
    \/ ChunkPage
    \/ StartFilter
    \/ ScoreChunk
    \/ ChunkerReturn
    \/ ScoreOne

SpecChunk == InitChunk /\ [][NextChunk]_vars

\* ---- page text with blank lines
\* A page text as its blocks: a blank line stands between two blocks, and a
\* block is its sentences.
RECURSIVE Flatten(_)
Flatten(blocks) == IF blocks = <<>> THEN <<>> ELSE Head(blocks) \o Flatten(Tail(blocks))

\* _clean_text: re.sub(r'\s+', ' ', text) turns every run of whitespace,
\* newlines and blank lines included, into one space; what is left is one
\* line, which the line filter keeps (it has 10 characters or more).
clean_text(blocks) ==
    IF Flatten(blocks) = <<>> THEN <<>> ELSE <<Flatten(blocks)>>

\* _split_into_paragraphs on a text that may hold blank lines: split on
\* r'\n\s*\n', then each piece is one paragraph, or is split on sentence
\* boundaries when longer than the target
RECURSIVE split_on_blank_lines(_)
split_on_blank_lines(blocks) ==
    IF blocks = <<>> THEN <<>>
    ELSE split_into_paragraphs(Head(blocks)) \o split_on_blank_lines(Tail(blocks))

\* cleaned_text = _clean_text(text); paragraphs = _split_into_paragraphs(cleaned_text)
page_paragraphs(blocks) == split_on_blank_lines(clean_text(blocks))

\* ---- inputs: pages of one or two blocks of one or two sentences
BlockSentences == [words : {20, 50, 190}, phrase : {"none"}, newpage : {FALSE}]
Blocks == {<<s>> : s \in BlockSentences}
            \cup {<<s, u>> : s \in BlockSentences, u \in BlockSentences}
BlockPages == {<<b>> : b \in Blocks} \cup {<<b, c>> : b \in Blocks, c \in Blocks}

\* _chunk_page_content called with this page text, followed up to its
\* paragraph list
NewParagraphs(blocks) == [pc |-> "clean", blocks |-> blocks, paragraphs |-> <<>>]

InitParagraphs ==
    /\ articles = <<>>
    /\ similarity_threshold = DetectorInit(NoThreshold)
    /\ last = NoCall
    /\ pdf = [d \in Docs |-> AbsentDoc]
    /\ run = [d \in Docs |-> NoTask]
    /\ chunker \in {NewParagraphs(blocks) : blocks \in BlockPages}
    /\ reading = NoReading
    /\ cleanup = NoCleanup

\* _chunk_page_content, lines 124-128
SplitPage ==
    /\ chunker.pc = "clean"
    /\ chunker' = [chunker EXCEPT !.pc = "paragraphs",
                                  !.paragraphs = page_paragraphs(chunker.blocks)]
    /\ UNCHANGED <<articles, detVars, pipeVars, toolVars>>

NextParagraphs == SplitPage

SpecParagraphs == InitParagraphs /\ [][NextParagraphs]_vars

\* ------------------------------------------------------ reading level
\* A text as its pieces: the words up to the next '.', '!' or '?', and that
\* mark ("" where the text ends without one).  Marks are attached to the
\* word before them.
\* the word counts of the strings text.split(sep) returns, for the marks sep
RECURSIVE SplitText(_, _, _)
SplitText(text, seps, current) ==
    IF text = <<>> THEN <<current>>
    ELSE LET piece == Head(text)
         IN IF piece.end \in seps
            THEN <<current + piece.words>> \o SplitText(Tail(text), seps, 0)
            ELSE SplitText(Tail(text), seps, current + piece.words)

\* Variant of split_sentences: '!' and '?' end a sentence as '.' does.
split_sentences_any_mark(text) ==
    SelectSeq(SplitText(text, {".", "!", "?"}, 0), LAMBDA w : w > 0)

\* sentences = text.split('.'); sentences = [s.strip() for s in sentences if s.strip()]
split_sentences(text) ==
    SelectSeq(SplitText(text, {"."}, 0), LAMBDA w : w > 0)

\* len(text.split())
RECURSIVE total_words(_)
total_words(text) == IF text = <<>> THEN 0 ELSE Head(text).words + total_words(Tail(text))

\* the bands of avg_sentence_length = words / sentences
BaseGrade(words, sentences) ==
    IF words <= 10 * sentences THEN 4
    ELSE IF words <= 15 * sentences THEN 6
    ELSE IF words <= 20 * sentences THEN 8
    ELSE 10

\* _estimate_reading_level.  complex_words: the words of three syllables or
\* more.  base is the local reading_level before the penalty is added.
estimate_reading_level(text, complex_words) ==
    LET sentences == split_sentences(text)
        words == total_words(text)
        base == BaseGrade(words, Len(sentences))
        complex_ratio == IF words > 0 THEN Rat(complex_words, words) ELSE Zero
    IN IF text = <<>> \/ sentences = <<>>
       THEN [base |-> None, level |-> Rat(12, 1)]
       ELSE [base |-> Some(base),
             level |-> RatMin(RatAdd(Rat(base, 1), RatMul(complex_ratio, Rat(4, 1))),
                              Rat(12, 1))]

\* ---- inputs
\* Largest number of pieces in a text.
MaxPieces == 3
Pieces == [words : {6, 12, 25}, end : {".", "!", "?", ""}]
            \cup {[words |-> 0, end |-> "."]}
RECURSIVE PieceSeqs(_)
PieceSeqs(n) ==
    IF n = 0 THEN {<<>>}
    ELSE LET shorter == PieceSeqs(n - 1)
         IN shorter \cup {Append(s, x) : s \in {u \in shorter : Len(u) = n - 1},
                                         x \in Pieces}
\* A text starts with a word, and only its last piece can lack a mark.
Texts ==
    {text \in PieceSeqs(MaxPieces) :
        /\ text # <<>> => text[1].words > 0
        /\ \A k \in 1..(Len(text) - 1) : text[k].end # ""}

NewReading(text, complex_words) ==
    [pc |-> "call", text |-> text, complex_words |-> complex_words,
     base |-> None, level |-> None]

InitReading ==
    /\ articles = <<>>
    /\ similarity_threshold = DetectorInit(NoThreshold)
    /\ last = NoCall
    /\ pdf = [d \in Docs |-> AbsentDoc]
    /\ run = [d \in Docs |-> NoTask]
    /\ chunker = NoChunker
    /\ reading \in {NewReading(text, c) : text \in Texts, c \in {0}}
                   \cup {NewReading(text, total_words(text)) : text \in Texts}
    /\ cleanup = NoCleanup

\* _estimate_reading_level(text) returns
EstimateReadingLevel ==
    /\ reading.pc = "call"
    /\ LET out == estimate_reading_level(reading.text, reading.complex_words)
       IN reading' = [reading EXCEPT !.pc = "done", !.base = out.base,
                                     !.level = Some(out.level)]
    /\ UNCHANGED <<articles, detVars, pipeVars, chunkVars, cleanup>>

NextReading == EstimateReadingLevel

SpecReading == InitReading /\ [][NextReading]_vars

\* ----------------------------------------------------- cleanup script
\* DuplicateCleanup.find_all_duplicates, run on a corpus nobody else is
\* writing.  content_pairs are the pairs of articles whose texts have cosine
\* 1; every other pair has cosine 0.
CleanupTitles == {<<"a", " ", "b">>, <<"a", "-", "B">>, <<"B">>}
CleanupArticles ==
    {[NewArticle(title, "none", 0, TRUE) EXCEPT !.processing_status = st] :
        title \in CleanupTitles, st \in {"draft", "rejected"}}
RECURSIVE CleanupCorpora(_)
CleanupCorpora(n) ==
    IF n = 0 THEN {<<>>}
    ELSE LET shorter == CleanupCorpora(n - 1)
         IN shorter \cup {Append(s, x) : s \in {u \in shorter : Len(u) = n - 1},
                                         x \in CleanupArticles}
PairsOf(n) == {{a, b} : a \in 1..n, b \in 1..n} \ {{a} : a \in 1..n}

\* DuplicateCleanup(): a detector of its own; find_all_duplicates is called
NewCleanup(content_pairs) ==
    [pc |-> "start", content_pairs |-> content_pairs, all |-> <<>>, i |-> 1,
     duplicates_map |-> <<>>, processed_pairs |-> {}, failed |-> FALSE]

InitCleanup ==
    /\ articles \in CleanupCorpora(MaxArticles)
    /\ similarity_threshold = DetectorInit(NoThreshold)
    /\ last = NoCall
    /\ pdf = [d \in Docs |-> AbsentDoc]
    /\ run = [d \in Docs |-> NoTask]
    /\ chunker = NoChunker
    /\ reading = NoReading
    /\ cleanup \in {NewCleanup(ps) : ps \in SUBSET PairsOf(Len(articles))}

\* articles = await HealthArticle.find().to_list(): every article, the
\* rejected ones included; duplicates_map has no key yet
CleanupRead ==
    /\ cleanup.pc = "start"
    /\ cleanup' = [cleanup EXCEPT !.pc = "loop",
                                  !.all = [a \in 1..Len(articles) |-> a],
                                  !.duplicates_map = [a \in 1..Len(articles) |-> <<>>]]
    /\ UNCHANGED <<articles, detVars, pipeVars, chunkVars, reading>>

\* One turn of the loop: the article is checked as a candidate against the
\* corpus, which holds the article itself; self-matches and pairs already
\* seen are filtered out.
CleanupCheck ==
    /\ cleanup.pc = "loop"
    /\ cleanup.i <= Len(cleanup.all)
    /\ LET id == cleanup.all[cleanup.i]
           cos == [a \in 1..Len(articles) |->
                     IF a = id \/ {a, id} \in cleanup.content_pairs THEN One ELSE Zero]
       IN \E readFails \in BOOLEAN, vecFails \in BOOLEAN :
            LET env == [readFails |-> readFails, vecFails |-> vecFails, cos |-> cos]
                duplicates == check_for_duplicates(articles[id].title, articles,
                                                   similarity_threshold, env).result
                fresh(p) == p[1] # id /\ {id, p[1]} \notin cleanup.processed_pairs
                filtered_duplicates == SelectSeq(duplicates, fresh)
            IN cleanup' = [cleanup EXCEPT
                  !.duplicates_map[id] = filtered_duplicates,
                  !.processed_pairs =
                      @ \cup {{id, filtered_duplicates[k][1]} :
                                 k \in 1..Len(filtered_duplicates)},
                  !.failed = @ \/ readFails \/ vecFails,
                  !.i = @ + 1]
    /\ UNCHANGED <<articles, detVars, pipeVars, chunkVars, reading>>

\* return duplicates_map
CleanupReturn ==
    /\ cleanup.pc = "loop"
    /\ cleanup.i > Len(cleanup.all)
    /\ cleanup' = [cleanup EXCEPT !.pc = "done"]
    /\ UNCHANGED <<articles, detVars, pipeVars, chunkVars, reading>>

NextCleanup ==
    \/ CleanupRead
    \/ CleanupCheck
    \/ CleanupReturn

SpecCleanup == InitCleanup /\ [][NextCleanup]_vars

\* ===================================================== properties
ArticleIds == 1..Len(articles)
ArticlesOf(d) == {a \in ArticleIds : articles[a].source_pdf_id = d}
Terminal == {"completed", "failed"}
StatusRank(st) ==
    CASE st = "absent" -> 0
      [] st = "uploaded" -> 1
      [] st = "parsing" -> 2
      [] st = "chunking" -> 3
      [] st = "processing" -> 4
      [] OTHER -> 5
Forward(st, nxt) ==
    st = nxt \/ (st \notin Terminal /\ StatusRank(st) < StatusRank(nxt))

\* C1: during a run of process_pdf_background the persisted
\* processing_status of the document only moves forward along uploaded,
\* parsing, chunking, processing, {completed, failed}, and a completed or
\* failed status never changes again.
C1_StatusOnlyForward ==
    [][\A d \in Docs :
          Forward(pdf[d].processing_status, pdf'[d].processing_status)]_vars

\* Reached: a run that went through every status and completed with articles.
C1_Witness ==
    \E d \in Docs :
        /\ pdf[d].processing_status = "completed"
        /\ run[d].created_articles # <<>>
        /\ run[d].errors # {}

\* C2 as stated: when extraction and chunking succeeded and every chunk was
\* sent to the oracle, whatever chunks the oracle failed on, the finished
\* document is completed and its total_articles_generated is the number of
\* summarized candidates that were not flagged as duplicates.
C2_CountsCandidatesNotFlagged ==
    \A d \in Docs :
        (/\ run[d].pc = "done"
         /\ run[d].chunked
         /\ run[d].chunks # <<>>
         /\ run[d].oracle_calls = Len(run[d].chunks))
        => /\ pdf[d].processing_status = "completed"
           /\ pdf[d].total_articles_generated =
                 Some(Len(run[d].summarized_contents) - Cardinality(run[d].flagged))

\* C3: a candidate the detector flagged is never searched an image for and
\* never inserted; every image search and every inserted article belongs to
\* a candidate for which the detector returned no match.
C3_FlaggedNeverPersisted ==
    \A d \in Docs :
        LET r == run[d]
            chunk_of(j) == r.summarized_contents[j].source_chunk_id
        IN /\ r.flagged \cap r.searched = {}
           /\ \A j \in r.flagged, a \in ArticlesOf(d) : articles[a].chunk_id # chunk_of(j)
           /\ r.searched \subseteq r.unique
           /\ \A a \in ArticlesOf(d) :
                 \E j \in r.unique \cap r.searched : articles[a].chunk_id = chunk_of(j)

\* Reached: a finished run with a flagged candidate and an inserted one.
C3_Witness ==
    \E d \in Docs :
        /\ run[d].pc = "done"
        /\ run[d].flagged # {}
        /\ ArticlesOf(d) # {}

\* C4: a run whose extractor or chunker raised ends failed with a message;
\* failed always carries a message, completed never does, and a document is
\* failed only when the extractor or the chunker raised.
C4_FailedIffFatal ==
    \A d \in Docs :
        /\ (run[d].pc = "done" /\ run[d].fatal # "none")
              => (pdf[d].processing_status = "failed" /\ pdf[d].error_message # None)
        /\ pdf[d].processing_status = "failed" => pdf[d].error_message # None
        /\ pdf[d].processing_status = "completed" => pdf[d].error_message = None
        /\ pdf[d].processing_status = "failed" => run[d].fatal # "none"

\* Reached: the chunker raised and the document is failed.
C4_Witness ==
    \E d \in Docs : run[d].fatal = "chunk" /\ pdf[d].processing_status = "failed"

\* C5: after the chunker returned no chunk the document is chunking and then
\* completed, never processing or failed; no oracle call is made and no
\* article is persisted for it.
C5_NoChunksCompletes ==
    \A d \in Docs :
        (run[d].chunked /\ run[d].chunks = <<>>)
        => /\ pdf[d].processing_status \in {"chunking", "completed"}
           /\ run[d].pc = "done" => pdf[d].processing_status = "completed"
           /\ run[d].oracle_calls = 0
           /\ ArticlesOf(d) = {}

\* Reached: a run that finished after the chunker returned no chunk.
C5_Witness ==
    \E d \in Docs :
        /\ run[d].chunked /\ run[d].chunks = <<>> /\ run[d].pc = "done"
        /\ pdf[d].processing_status = "completed"

\* ---- the detector call that has just returned
LiveIds == {a \in ArticleIds : articles[a].processing_status # "rejected"}
\* the corpus the call retrieved
CorpusRead == IF last.readFails THEN {} ELSE LiveIds
Returned == {last.out.result[k] : k \in 1..Len(last.out.result)}
ReturnedIds == {p[1] : p \in Returned}
TitleMatches ==
    {p \in {<<a, title_similarity(last.title, articles[a].title)>> : a \in CorpusRead} :
        Geq(p[2], title_similarity_threshold)}
SortedDescending(seq) ==
    \A k \in 1..(Len(seq) - 1) : Geq(seq[k][2], seq[k + 1][2])

\* C6: when some article of the retrieved corpus has title similarity >= 0.8
\* the call returns exactly the title matches, each with its title
\* similarity, and fit_transform is not called; fit_transform is called only
\* when there is no title match.
C6_TitleStageShortCircuits ==
    last.called =>
        /\ TitleMatches # {} =>
              /\ Returned = TitleMatches
              /\ Len(last.out.result) = Cardinality(TitleMatches)
              /\ SortedDescending(last.out.result)
              /\ ~last.out.vectorized
        /\ last.out.vectorized => TitleMatches = {}

\* Reached: two title matches with different scores are returned.
C6_Witness ==
    /\ last.called
    /\ Cardinality(TitleMatches) = 2
    /\ \E p, q \in Returned : ~Geq(p[2], q[2])

\* lower-casing and removal of every non-alphanumeric character
AlnumOnly(t) == SelectSeq(LowerStr(t), IsAlnum)
ReturnedWithOne(a) == \E p \in Returned : p[1] = a /\ RatEq(p[2], One)

\* C7 as stated: an article of the retrieved corpus whose title equals the
\* candidate's after lower-casing and removal of the non-alphanumeric
\* characters is returned with score 1.0 by the title stage, without
\* vectorization.
C7_AlnumIdenticalScoresOne ==
    last.called =>
        \A a \in CorpusRead :
            AlnumOnly(last.title) = AlnumOnly(articles[a].title)
            => (ReturnedWithOne(a) /\ last.out.stage = "title" /\ ~last.out.vectorized)

\* the normalization of _check_title_similarity: lower-cased, trimmed,
\* characters that are neither alphanumeric nor whitespace removed
CodeNormal(t) == CleanTitle(Strip(LowerStr(t)))

\* C7 amended: an article of the retrieved corpus whose title equals the
\* candidate's after lower-casing, trimming and removal of the characters
\* that are neither alphanumeric nor whitespace is returned with score 1.0
\* by the title stage, without vectorization.
C7_CleanIdenticalScoresOne ==
    last.called =>
        \A a \in CorpusRead :
            CodeNormal(last.title) = CodeNormal(articles[a].title)
            => (ReturnedWithOne(a) /\ last.out.stage = "title" /\ ~last.out.vectorized)

\* Reached: titles that differ as written and agree once cleaned.
C7_Witness ==
    /\ last.called
    /\ \E a \in CorpusRead :
          /\ Strip(LowerStr(last.title)) # Strip(LowerStr(articles[a].title))
          /\ CodeNormal(last.title) = CodeNormal(articles[a].title)
          /\ ReturnedWithOne(a)

\* C8: the call never returns a rejected article; an article with the
\* candidate's title is returned while its status is not rejected (the
\* corpus read having succeeded) and is not returned once it is rejected.
C8_RejectedNeverReturned ==
    last.called =>
        /\ \A a \in ReturnedIds : articles[a].processing_status # "rejected"
        /\ \A a \in ArticleIds :
              (articles[a].title = last.title /\ ~last.readFails)
              => (a \in ReturnedIds <=> articles[a].processing_status # "rejected")

\* Reached: of two articles with the candidate's title the rejected one is
\* left out and the other is returned.
C8_Witness ==
    /\ last.called
    /\ \E a, b \in ArticleIds :
          /\ articles[a].title = last.title /\ articles[b].title = last.title
          /\ articles[a].processing_status = "rejected"
          /\ b \in ReturnedIds /\ a \notin ReturnedIds

\* C9: a check made on an empty corpus, or during which the corpus read or
\* the vectorizer failed, returns the empty list without raising: the
\* candidate is treated as unique, not as a failed item, and the document is
\* not failed.
C9_DetectorDegradesToUnique ==
    \A d \in Docs :
        \A p \in run[d].degraded :
            /\ p[1] \in run[d].unique
            /\ p[1] \notin run[d].flagged
            /\ pdf[d].processing_status # "failed"

\* Reached: the vectorizer failed during a check and the candidate was
\* inserted.
C9_Witness ==
    \E d \in Docs :
        \E p \in run[d].degraded :
            /\ p[2] = "vector"
            /\ \E a \in ArticlesOf(d) :
                  articles[a].chunk_id = run[d].summarized_contents[p[1]].source_chunk_id

\* C10 as stated: with a content threshold in [0,1] in effect, every
\* returned score lies in [0,1] and is >= that threshold, whichever stage
\* produced it.
C10_ScoresReachContentThreshold ==
    (/\ last.called
     /\ Geq(similarity_threshold, Zero) /\ Geq(One, similarity_threshold))
    => \A p \in Returned :
          /\ Geq(p[2], Zero) /\ Geq(One, p[2])
          /\ Geq(p[2], similarity_threshold)

RECURSIVE SumWords(_)
SumWords(chunks) ==
    IF chunks = <<>> THEN 0 ELSE Head(chunks).word_count + SumWords(Tail(chunks))
OnPage(p) == SelectSeq(chunker.chunks, LAMBDA c : c.page_number = p)
\* the words of page p that are in none of its chunks
LeftOut(p) == PageText(chunker.pages[p]).words - SumWords(OnPage(p))
Chunking == chunker.pc \in {"pages", "filter", "done"}

\* C12: every chunk made from a page, and so every chunk returned, has
\* word_count >= min_chunk_size, and the words of a page that are in none
\* of its chunks are fewer than min_chunk_size: the trailing remainder is
\* dropped, not emitted as a small chunk.
C12_ChunksReachMinSize ==
    Chunking =>
        /\ \A k \in 1..Len(chunker.chunks) :
              chunker.chunks[k].word_count >= min_chunk_size
        /\ \A k \in 1..Len(chunker.returned) :
              chunker.returned[k].word_count >= min_chunk_size
        /\ \A p \in 1..(chunker.page - 1) :
              LeftOut(p) >= 0 /\ LeftOut(p) < min_chunk_size

\* Reached: a page gave a chunk and its remainder of 20 words gave none.
C12_Witness ==
    /\ chunker.pc = "done"
    /\ \E p \in 1..Len(chunker.pages) : LeftOut(p) = 20 /\ OnPage(p) # <<>>

NoKeyword(chunk) ==
    \A c \in Categories : keyword_count(health_keywords[c], chunk.phrases) = 0
UnitScore(chunk, s) ==
    /\ Geq(s, Zero) /\ Geq(One, s)
    /\ NoKeyword(chunk) => RatEq(s, Zero)

\* C13: every relevance score computed, for a chunk of the chunker or for
\* a chunk of any word count, lies in [0,1], and is 0 when no keyword of any
\* category occurs in the chunk.
C13_ScoreInUnitInterval ==
    /\ chunker.pc = "scored" => UnitScore(chunker.chunk, chunker.score[1])
    /\ chunker.pc \in {"filter", "done"} =>
          \A k \in 1..(chunker.k - 1) :
              UnitScore(chunker.chunks[k], chunker.chunks[k].relevance_score[1])

\* Reached: a chunk of 400 words without a keyword scored 0.
C13_Witness ==
    /\ chunker.pc = "scored"
    /\ chunker.chunk.word_count = 400 /\ chunker.chunk.phrases = {"none"}
    /\ RatEq(chunker.score[1], Zero)

Relevant(c) == Geq(c.relevance_score[1], relevance_threshold)

\* C14: chunk_content returns exactly the chunks whose relevance score is
\* >= 0.3, in order: each returned chunk is marked is_relevant and has such
\* a score, and no chunk made with such a score is left out.
C14_ReturnedIffRelevant ==
    chunker.pc = "done" =>
        /\ chunker.returned = SelectSeq(chunker.chunks, Relevant)
        /\ \A k \in 1..Len(chunker.returned) :
              chunker.returned[k].is_relevant /\ Relevant(chunker.returned[k])
        /\ \A k \in 1..Len(chunker.chunks) :
              chunker.chunks[k].is_relevant <=> Relevant(chunker.chunks[k])

\* Reached: of two chunks one is returned and one is left out.
C14_Witness ==
    /\ chunker.pc = "done"
    /\ Len(chunker.chunks) = 2
    /\ Len(chunker.returned) = 1

\* ---- the statistics of a run
\* C15 as stated: whenever a document is completed its processing
\* statistics are recorded and its total_articles_generated is a number,
\* also when no chunk was relevant or no chunk was summarized.
C15_StatsRecordedAtCompletion ==
    \A d \in Docs :
        pdf[d].processing_status = "completed"
        => /\ pdf[d].processing_stats # None
           /\ pdf[d].total_articles_generated # None

\* C16 as stated: the recorded articles_skipped_duplicates is the number of
\* candidates the detector flagged; a candidate dropped for a validation or
\* insert error is not counted in it.
C16_SkippedDuplicatesAreFlagged ==
    \A d \in Docs :
        (pdf[d].processing_status = "completed" /\ pdf[d].processing_stats # None)
        => pdf[d].processing_stats[1].articles_skipped_duplicates
              = Cardinality(run[d].flagged)

\* the articles document d inserted for its candidate j
ArticlesFor(d, j) ==
    {a \in ArticlesOf(d) : articles[a].chunk_id = run[d].summarized_contents[j].source_chunk_id}
\* the loop of step 4 has finished with candidate j
Handled(d, j) == run[d].j > j \/ run[d].pc \in {"finish", "done"}

\* C17 as stated: a unique candidate the image matcher returned None for is
\* not persisted, and the document is not failed because of it.
C17_NoImageNotPersisted ==
    \A d \in Docs :
        \A j \in run[d].noimage :
            /\ ArticlesFor(d, j) = {}
            /\ pdf[d].processing_status # "failed"

\* C17 amended: a unique candidate the image matcher returned None for is
\* persisted like any other, with image_url unset, unless its validation or
\* insert fails; it is counted in total_articles_generated, and the document
\* is not failed because of it.
C17_NoImagePersistedWithoutImage ==
    \A d \in Docs :
        \A j \in run[d].noimage :
            /\ pdf[d].processing_status # "failed"
            /\ (Handled(d, j) /\ j \notin run[d].errors)
                  => \E a \in ArticlesFor(d, j) :
                        /\ ~articles[a].image_url
                        /\ \E k \in 1..Len(run[d].created_articles) :
                              run[d].created_articles[k] = a
            /\ (run[d].pc = "done" /\ run[d].summarized_contents # <<>>)
                  => pdf[d].total_articles_generated = Some(Len(run[d].created_articles))

\* Reached: a completed document whose only article has no image.
C17_Witness ==
    \E d \in Docs :
        /\ run[d].pc = "done"
        /\ run[d].noimage # {}
        /\ pdf[d].total_articles_generated = Some(1)
        /\ \A a \in ArticlesOf(d) : ~articles[a].image_url

\* ---- batch_summarize_chunks
\* summarize_chunk for chunk 1, sleep, chunk 2, sleep, .. chunk n
ExpectedEvents(n) ==
    [k \in 1..(2 * n - 1) |->
        IF k % 2 = 1 THEN <<"call", (k + 1) \div 2>> ELSE <<"sleep", k \div 2>>]
IsPrefix(s, full) == Len(s) <= Len(full) /\ s = SubSeq(full, 1, Len(s))
BatchReturned(r) == r.pc \in {"summarized", "check", "image", "create", "finish", "done"}

\* C19: within a document the calls of summarize_chunk are made one at a
\* time in chunk order, a sleep separates each call from the next whatever
\* the call returned, no sleep follows the last call, and the candidates are
\* returned in chunk order.
C19_CallsSequentialAndSpaced ==
    \A d \in Docs :
        LET r == run[d]
        IN r.chunks # <<>> =>
             /\ IsPrefix(r.events, ExpectedEvents(Len(r.chunks)))
             /\ (BatchReturned(r) /\ r.events # <<>>)
                   => r.events = ExpectedEvents(Len(r.chunks))
             /\ \A k \in 1..(Len(r.summarized_contents) - 1) :
                   r.summarized_contents[k].source_chunk_id
                      < r.summarized_contents[k + 1].source_chunk_id

\* Reached: the first call failed, the sleep followed, the second call gave
\* the only candidate.
C19_Witness ==
    \E d \in Docs :
        /\ BatchReturned(run[d])
        /\ Len(run[d].chunks) = 2
        /\ run[d].oracle_calls = 2
        /\ Len(run[d].summarized_contents) = 1
        /\ run[d].summarized_contents[1].source_chunk_id = 2
        /\ run[d].events = <<<<"call", 1>>, <<"sleep", 1>>, <<"call", 2>>>>

\* ---- termination
\* C18 as stated: every document whose background processing has started
\* eventually reaches completed or failed, also when a summarization call
\* never returns.
C18_StartedEventuallyTerminal ==
    \A d \in Docs :
        (pdf[d].processing_status = "parsing")
            ~> (pdf[d].processing_status \in {"completed", "failed"})

\* ---- two documents processed concurrently
\* the title of document d's candidate j
TitleOf(d, j) == run[d].summarized_contents[j].title
\* the non-rejected articles among the first n that the title stage matches
\* with document d's candidate j
SeenMatches(d, j, n) ==
    {a \in 1..n : /\ articles[a].processing_status # "rejected"
                  /\ Geq(title_similarity(TitleOf(d, j), articles[a].title),
                         title_similarity_threshold)}

\* C20: a candidate's duplicate check sees every non-rejected article that
\* was inserted before its corpus read, whichever document inserted it: a
\* candidate whose read succeeded and held a title match is flagged and not
\* persisted.  It sees no article inserted after the read: a flagged
\* candidate has a non-rejected article among those its read returned.
C20_CheckSeesCorpusAtRead ==
    \A d \in Docs :
        \A rd \in run[d].reads :
            LET j == rd[1]
                n == rd[2]
            IN /\ (~rd[3] /\ SeenMatches(d, j, n) # {})
                    => (j \in run[d].flagged /\ ArticlesFor(d, j) = {})
               /\ j \in run[d].flagged
                    => (~rd[3] /\ \E a \in 1..n : articles[a].processing_status # "rejected")

\* Reached: both documents have finished, each persisted an article with
\* the same normalized title, each read the corpus without error before the
\* other's insert.
C20_Witness ==
    \E a, b \in 1..Len(articles) :
        /\ articles[a].source_pdf_id = "d1"
        /\ articles[b].source_pdf_id = "d2"
        /\ CodeNormal(articles[a].title) = CodeNormal(articles[b].title)
        /\ \E ra \in run["d1"].reads, rb \in run["d2"].reads :
              /\ a \in ArticlesFor("d1", ra[1])
              /\ b \in ArticlesFor("d2", rb[1])
              /\ ~ra[3] /\ ~rb[3]
              /\ ra[2] < b /\ rb[2] < a
        /\ \A d \in Docs : run[d].pc = "done" /\ pdf[d].processing_status = "completed"

\* ---- what a run may touch
\* a step of document d's task
StepOf(d) == run'[d] # run[d]
\* every article present before the step is still there, unchanged
ArticlesKept ==
    /\ Len(articles') >= Len(articles)
    /\ \A a \in 1..Len(articles) : articles'[a] = articles[a]

\* C21: a step of document d's task, cancellation included, changes no
\* other document's record or task, changes or removes no persisted article,
\* and adds only articles whose source is d.
C21_RunTouchesOnlyItsDocument ==
    [][\A d \in Docs :
          StepOf(d) =>
              /\ \A e \in Docs \ {d} : pdf'[e] = pdf[e] /\ run'[e] = run[e]
              /\ ArticlesKept
              /\ \A a \in (Len(articles) + 1)..Len(articles') :
                    articles'[a].source_pdf_id = d]_vars

\* Reached: the first document's task was cancelled after it had persisted
\* an article; the second document and its article are as they were.
C21_Witness ==
    /\ run["d1"].pc = "cancelled"
    /\ ArticlesOf("d1") # {}
    /\ pdf["d2"] = CompletedDoc
    /\ articles[1].source_pdf_id = "d2"

\* C22 as stated: a document whose task was cancelled after its processing
\* had started is in status failed, with a message.
C22_CancelledEndsFailed ==
    \A d \in Docs :
        (run[d].pc = "cancelled" /\ pdf[d].processing_started_at)
        => /\ pdf[d].processing_status = "failed"
           /\ pdf[d].error_message # None

\* ---- categories
\* C23 as stated: a chunk whose answer had every required field and an
\* unrecognized category still gives a candidate, with the general category.
C23_UnknownCategoryDefaultsToGeneral ==
    \A d \in Docs :
        \A i \in run[d].unknown_category :
            \E k \in 1..Len(run[d].summarized_contents) :
                /\ run[d].summarized_contents[k].source_chunk_id = i
                /\ run[d].summarized_contents[k].category = CategoryEnum.GENERAL_HEALTH

\* C25 as stated: once the batch has returned, every relevant chunk has had
\* exactly one call of the oracle, whatever keywords it holds.
C25_OneOracleCallPerChunk ==
    \A d \in Docs :
        BatchReturned(run[d]) => run[d].oracle_calls = Len(run[d].chunks)

\* ---- configuration of the detector
\* C24 as stated: whatever detectors were constructed and whatever updates
\* were made, the content similarity threshold in effect lies in [0,1].
C24_ThresholdInUnitInterval ==
    /\ Geq(similarity_threshold, Zero)
    /\ Geq(One, similarity_threshold)

\* ---- paragraphs and chunk sizes
\* C26 as stated: the paragraph list of a page holds one paragraph per
\* block of the page text, a block longer than the target size being split
\* at its sentence ends.
C26_BlankLinesAreParagraphBoundaries ==
    chunker.pc = "paragraphs"
    => /\ chunker.paragraphs = split_on_blank_lines(chunker.blocks)
       /\ (\A k \in 1..Len(chunker.blocks) :
              PageText(chunker.blocks[k]).words <= target_chunk_size)
            => /\ Len(chunker.paragraphs) = Len(chunker.blocks)
               /\ \A k \in 1..Len(chunker.blocks) :
                     chunker.paragraphs[k] = PageText(chunker.blocks[k])

\* C29 as stated: every chunk the chunker emits has at most max_chunk_size
\* words.
C29_ChunksWithinMaxSize ==
    Chunking => \A k \in 1..Len(chunker.chunks) :
                    chunker.chunks[k].word_count <= max_chunk_size

\* ---- reading level
\* the pieces of the text that end a run the marks in seps close, the run
\* holding at least one word; and the words left after the last such mark
Closes(text, seps, k) ==
    /\ text[k].end \in seps
    /\ \E j \in 1..k : /\ text[j].words > 0
                       /\ \A i \in j..(k - 1) : text[i].end \notin seps
Trailing(text, seps) ==
    \E j \in 1..Len(text) : /\ text[j].words > 0
                            /\ \A i \in j..Len(text) : text[i].end \notin seps
SentenceCount(text, seps) ==
    Cardinality({k \in 1..Len(text) : Closes(text, seps, k)})
        + (IF Trailing(text, seps) THEN 1 ELSE 0)
\* the grade of the bands for a mean of words / sentences
Banded(words, sentences) ==
    CASE words <= 10 * sentences -> 4
      [] words > 10 * sentences /\ words <= 15 * sentences -> 6
      [] words > 15 * sentences /\ words <= 20 * sentences -> 8
      [] OTHER -> 10

\* C27 as stated: the base grade is the band of the word count divided by
\* the number of non-empty sentences, a sentence ending at '.', '!' or '?'.
C27_BaseGradeBySentenceMarks ==
    (reading.pc = "done" /\ reading.text # <<>>)
    => reading.base = Some(Banded(total_words(reading.text),
                                  SentenceCount(reading.text, {".", "!", "?"})))

\* C27 amended: the base grade is the band of the word count divided by the
\* number of non-empty pieces the text has between its '.' characters; '!'
\* and '?' do not end a sentence.
C27_BaseGradeByFullStops ==
    (reading.pc = "done" /\ reading.text # <<>>)
    => reading.base = Some(Banded(total_words(reading.text),
                                  SentenceCount(reading.text, {"."})))

\* Reached: a text of two 12-word sentences, the first ending in '!', is
\* graded 10 as one sentence of 24 words.
C27_Witness ==
    /\ reading.pc = "done"
    /\ reading.text = <<[words |-> 12, end |-> "!"], [words |-> 12, end |-> "."]>>
    /\ reading.base = Some(10)

\* ---- find_all_duplicates
\* article b is listed under key a of the returned map
ListedUnder(a, b) ==
    \E k \in 1..Len(cleanup.duplicates_map[a]) : cleanup.duplicates_map[a][k][1] = b
\* a and b are duplicates of each other by title, or by content only
DuplicatePair(a, b) ==
    \/ Geq(title_similarity(articles[a].title, articles[b].title),
           title_similarity_threshold)
    \/ /\ {a, b} \in cleanup.content_pairs
       /\ Geq(One, similarity_threshold)

\* C28 as stated: when find_all_duplicates has returned and no detector
\* call failed, every pair of distinct non-rejected articles that are
\* duplicates by title or by content only is in the returned map exactly
\* once, and no article is listed under its own key.
C28_EveryDuplicatePairReported ==
    (cleanup.pc = "done" /\ ~cleanup.failed)
    => /\ \A a \in 1..Len(articles) : ~ListedUnder(a, a)
       /\ \A a, b \in 1..Len(articles) :
             (/\ a < b
              /\ articles[a].processing_status # "rejected"
              /\ articles[b].processing_status # "rejected"
              /\ DuplicatePair(a, b))
             => (ListedUnder(a, b) /\ ~ListedUnder(b, a))
                   \/ (ListedUnder(b, a) /\ ~ListedUnder(a, b))

\* ---- one document, nobody else writing
\* every corpus read of document d's run succeeded
NoReadError(d) == \A rd \in run[d].reads : ~rd[3]
SameNormalTitle(a, b) == CodeNormal(articles[a].title) = CodeNormal(articles[b].title)

\* C30: a run whose corpus reads all succeeded persists no two articles
\* with the same normalized title, and no article whose normalized title is
\* that of a non-rejected article that was in the corpus before.
C30_RunPersistsNoEqualTitles ==
    \A d \in Docs :
        NoReadError(d) =>
            \A a \in ArticlesOf(d) :
                \A b \in 1..(a - 1) :
                    articles[b].processing_status # "rejected" => ~SameNormalTitle(a, b)

\* Reached: a finished run with no read error whose second candidate was
\* flagged for the article the run itself had persisted from its first, the
\* two titles differing in punctuation only.
C30_Witness ==
    \E d \in Docs :
        /\ run[d].pc = "done"
        /\ NoReadError(d)
        /\ ArticlesOf(d) = {1}
        /\ run[d].flagged = {2}
        /\ TitleOf(d, 2) # articles[1].title
        /\ CodeNormal(TitleOf(d, 2)) = CodeNormal(articles[1].title)

====
